---- MODULE Spec2Model ----
(***************************************************************************)
(* Schema object model of the federation repository: the mutable and       *)
(* immutable schema graphs, their construction from a document, the        *)
(* mutation methods of the mutable view, removal and deep copy.            *)
(*                                                                         *)
(* Every schema element is an object of a heap (a sequence of records, an  *)
(* object's identity being its index).  Nothing is ever freed: a detached  *)
(* element stays in the heap, as it stays reachable by whoever holds it.   *)
(***************************************************************************)
EXTENDS Integers, Sequences, FiniteSets, TLC

VARIABLES heap, last, nops, applied, doc, thisScope, thatScope, subgraph,
          subgraphs, result
vars == <<heap, last, nops, applied, doc, thisScope, thatScope, subgraph,
          subgraphs, result>>

\* ------------------------------------------------------------------ bounds
\* Number of operations applied after construction.
MaxOps == 2
\* Number of schemas alive at once (parsed or copied).
MaxSchemas == 3
\* Last position at which an unsupported definition is put in a document.
MaxPosition == 6

\* ----------------------------------------------------------- heap objects
\* `undefined` as an object reference.
Undef == 0

\* A type reference: a named type (depth 0) or ListType wrappers around one.
TypeRef(b, d) == [base |-> b, depth |-> d]
NoType == TypeRef(Undef, 0)

builtInTypes == <<"Int", "Float", "String", "Boolean", "ID">>

SchemaRoots == {"query", "mutation", "subscription"}
NoRoots == [r \in SchemaRoots |-> Undef]

NamedTypeKinds == {"ScalarType", "ObjectType", "UnionType", "InputObjectType"}

\* The fields of every heap object.  kids holds, in insertion order, the
\* entries of the object's map or list: typesMap of a schema, fieldsMap of an
\* (input) object type, typesList of a union, _args of a field or a
\* directive definition.  home is the schema the element was created for.
Blank ==
  [kind |-> "", name |-> "", parent |-> Undef, type |-> NoType,
   dirs |-> <<>>, kids |-> <<>>, refs |-> {}, roots |-> NoRoots,
   dargs |-> <<>>, dflt |-> Undef, sdef |-> Undef, builtins |-> <<>>,
   ddefs |-> <<>>, mutable |-> FALSE, home |-> Undef]

Ids(h) == 1..Len(h)

RECURSIVE SchemaOf(_, _)
\* BaseElement.schema() and Directive.schema()
SchemaOf(h, e) ==
  IF e = Undef THEN Undef
  ELSE IF h[e].parent = Undef THEN Undef
  ELSE IF h[h[e].parent].kind = "Schema" THEN h[e].parent
  ELSE SchemaOf(h, h[e].parent)

\* ListType.schema(): the schema of the base type
TypeSchema(h, t) == SchemaOf(h, t.base)

\* Map.get / Map.set / Map.delete on a map kept as the sequence of its values,
\* keyed by the value's name.
MapGet(h, seq, name) ==
  LET idx == {i \in 1..Len(seq) : h[seq[i]].name = name}
  IN IF idx = {} THEN Undef ELSE seq[CHOOSE i \in idx : \A j \in idx : i <= j]

MapSet(h, seq, id) ==
  LET idx == {i \in 1..Len(seq) : h[seq[i]].name = h[id].name}
  IN IF idx = {} THEN Append(seq, id)
     ELSE [i \in 1..Len(seq) |-> IF i \in idx THEN id ELSE seq[i]]

MapDelete(h, seq, name) == SelectSeq(seq, LAMBDA x : h[x].name # name)

SeqToSet(s) == {s[i] : i \in 1..Len(s)}

\* Array.indexOf (1-based, 0 when absent) and Array.splice(index, 1)
IndexOf(seq, x) ==
  LET idx == {i \in 1..Len(seq) : seq[i] = x}
  IN IF idx = {} THEN 0 ELSE CHOOSE i \in idx : \A j \in idx : i <= j

Splice(seq, i) == [j \in 1..(Len(seq) - 1) |-> IF j < i THEN seq[j] ELSE seq[j + 1]]

\* BaseSchema.type(name): the user type of that name, else the built-in
SchemaType(h, s, name) ==
  LET t == MapGet(h, h[s].kids, name)
  IN IF t # Undef THEN t ELSE MapGet(h, h[s].builtins, name)

\* ------------------------------------------------------------------ Ctors
HomeOf(h, parent) == IF parent = Undef THEN Undef ELSE h[parent].home

\* Ctors.createScalarType / createObjectType / createUnionType /
\* createInputObjectType: a detached-from-the-map type whose parent is schema
CreateNamedType(h, kind, name, schema) ==
  Append(h, [Blank EXCEPT !.kind = kind, !.name = name, !.parent = schema,
                          !.home = HomeOf(h, schema)])

\* Ctors.createFieldDefinition / createInputFieldDefinition
CreateFieldDefinition(h, kind, name, parent, type) ==
  Append(h, [Blank EXCEPT !.kind = kind, !.name = name, !.parent = parent,
                          !.type = type, !.home = HomeOf(h, parent)])

\* Ctors.createFieldArgumentDefinition / createDirectiveArgumentDefinition
CreateArgumentDefinition(h, name, parent, type, value) ==
  Append(h, [Blank EXCEPT !.kind = "ArgumentDefinition", !.name = name,
                          !.parent = parent, !.type = type, !.dflt = value,
                          !.home = HomeOf(h, parent)])

\* Ctors.createDirectiveDefinition
CreateDirectiveDefinition(h, name, parent) ==
  Append(h, [Blank EXCEPT !.kind = "DirectiveDefinition", !.name = name,
                          !.parent = parent, !.home = HomeOf(h, parent)])

\* Ctors.createDirective
CreateDirective(h, name, parent, args) ==
  Append(h, [Blank EXCEPT !.kind = "Directive", !.name = name,
                          !.parent = parent, !.dargs = args,
                          !.home = HomeOf(h, parent)])

RECURSIVE SetBuiltIns(_, _, _)
SetBuiltIns(h, s, i) ==
  IF i > Len(builtInTypes) THEN h
  ELSE SetBuiltIns([CreateNamedType(h, "ScalarType", builtInTypes[i], s)
                       EXCEPT ![s].builtins = Append(@, Len(h) + 1)], s, i + 1)

\* Ctors.schema(): a new schema (the last-but-five object) with its built-ins
CtorsSchema(h, isMutable) ==
  SetBuiltIns(Append(h, [Blank EXCEPT !.kind = "Schema", !.mutable = isMutable,
                                       !.home = Len(h) + 1]),
              Len(h) + 1, 1)

\* Ctors.addSchemaDefinition
AddSchemaDefinition(h, s) ==
  [Append(h, [Blank EXCEPT !.kind = "SchemaDefinition", !.parent = s,
                           !.home = h[s].home])
     EXCEPT ![s].sdef = Len(h) + 1]

\* ------------------------------------------------- module-private helpers
AddTypeDefinition(h, t, s) == [h EXCEPT ![s].kids = MapSet(h, @, t)]

RemoveTypeDefinition(h, t, s) == [h EXCEPT ![s].kids = MapDelete(h, @, h[t].name)]

AddDirectiveDefinition(h, d, s) == [h EXCEPT ![s].ddefs = MapSet(h, @, d)]

\* general addReferencerToType; type.base is a named type (the caller has
\* checked: on undefined the source throws a TypeError)
AddReferencerToType(h, referencer, type) ==
  [h EXCEPT ![type.base].refs = @ \cup {referencer}]

AddFieldArg(h, arg, field) == [h EXCEPT ![field].kids = MapSet(h, @, arg)]

AddDirectiveArg(h, arg, d) == [h EXCEPT ![d].kids = MapSet(h, @, arg)]

AddFieldTo(h, field, objectType) == [h EXCEPT ![objectType].kids = MapSet(h, @, field)]

\* An application that is never entered in the element's list.
AddAppliedDirectiveUnlisted(h, e, d) == h

\* BaseElement.addAppliedDirective
AddAppliedDirective(h, e, d) == [h EXCEPT ![e].dirs = Append(@, d)]

\* ---------------------------------------------------------------- parsing
\* The document (the external parser's AST), reduced to what the builder
\* reads.  A type node is a named type under depth ListType wrappers;
\* nonnull says that a NonNullType wrapper occurs in it.
TypeNode(name, depth) == [name |-> name, depth |-> depth, nonnull |-> FALSE]
DirectiveNode(name, args) == [name |-> name, args |-> args]
InputValueNode(name, type, dirs, dflt) ==
  [name |-> name, type |-> type, args |-> <<>>, dirs |-> dirs, dflt |-> dflt]
FieldNode(name, type, args, dirs) ==
  [name |-> name, type |-> type, args |-> args, dirs |-> dirs, dflt |-> Undef]
OperationTypeNode(root, name) == [operation |-> root, type |-> name]
DefNode(kind, name) ==
  [kind |-> kind, name |-> name, dirs |-> <<>>, fields |-> <<>>,
   types |-> <<>>, ops |-> <<>>, args |-> <<>>]

TypeDefinitionKinds ==
  {"ScalarTypeDefinition", "ObjectTypeDefinition", "InterfaceTypeDefinition",
   "UnionTypeDefinition", "EnumTypeDefinition", "InputObjectTypeDefinition"}
ExtensionKinds ==
  {"SchemaExtension", "ScalarTypeExtension", "ObjectTypeExtension",
   "InterfaceTypeExtension", "UnionTypeExtension", "EnumTypeExtension",
   "InputObjectTypeExtension"}
ExecutableKinds == {"OperationDefinition", "FragmentDefinition"}

\* withoutTrailingDefinition
WithoutTrailingDefinition(kind) ==
  CASE kind = "ScalarTypeDefinition" -> "ScalarType"
    [] kind = "ObjectTypeDefinition" -> "ObjectType"
    [] kind = "InterfaceTypeDefinition" -> "InterfaceType"
    [] kind = "UnionTypeDefinition" -> "UnionType"
    [] kind = "EnumTypeDefinition" -> "EnumType"
    [] kind = "InputObjectTypeDefinition" -> "InputObjectType"
    [] OTHER -> kind

\* A build in progress: the heap, and whether no error has been thrown.
\* Every operator below takes the build so far as a parameter and returns
\* the build after it.
Building(h) == [h |-> h, ok |-> TRUE]
Thrown(st) == [st EXCEPT !.ok = FALSE]

\* buildWrapperTypeOrTypeRef (its NonNullType branch throws: see TypeNodeBuilds)
BuildWrapperTypeOrTypeRef(h, node, schema) ==
  TypeRef(SchemaType(h, schema, node.name), node.depth)
\* A builder that lets the NonNullType wrapper through.
TypeNodeBuildsAlways(node) == TRUE

TypeNodeBuilds(node) == ~node.nonnull

\* addReferencerToType(element, type) as the build and copy functions call
\* it: type.kind throws a TypeError when the type is undefined
Referencing(st, e, type) ==
  IF ~st.ok THEN st
  ELSE IF type.base = Undef THEN Thrown(st)
  ELSE Building(AddReferencerToType(st.h, e, type))

\* addField / addFieldArg / addDirectiveArg of the element just built
Added(st, e, parent) ==
  IF ~st.ok THEN st ELSE Building(AddFieldArg(st.h, e, parent))

RECURSIVE BuildAppliedDirectives(_, _, _)
\* buildAppliedDirectives / buildDirective
BuildAppliedDirectives(h, nodes, e) ==
  IF nodes = <<>> THEN h
  ELSE BuildAppliedDirectives(
         AddAppliedDirective(CreateDirective(h, nodes[1].name, e, nodes[1].args),
                             e, Len(h) + 1),
         Tail(nodes), e)

\* buildFieldArgumentDefinition / buildDirectiveArgumentDefinition /
\* buildInputFieldDefinition, once the type is resolved: the value is
\* created (object Len(h) + 1), given its directives and registered as a
\* referencer of its type
BuildInputValueOfType(h, node, parent, kind, type) ==
  Referencing(
    Building(BuildAppliedDirectives(
      IF kind = "ArgumentDefinition"
      THEN CreateArgumentDefinition(h, node.name, parent, type, node.dflt)
      ELSE CreateFieldDefinition(h, kind, node.name, parent, type),
      node.dirs, Len(h) + 1)),
    Len(h) + 1, type)

BuildInputValue(st, node, parent, kind) ==
  IF ~st.ok THEN st
  ELSE IF ~TypeNodeBuilds(node.type) THEN Thrown(st)
  ELSE BuildInputValueOfType(st.h, node, parent, kind,
         BuildWrapperTypeOrTypeRef(st.h, node.type, SchemaOf(st.h, parent)))

RECURSIVE BuildInputValues(_, _, _, _)
\* the loops over arguments and input fields
BuildInputValues(st, nodes, parent, kind) ==
  IF ~st.ok \/ nodes = <<>> THEN st
  ELSE BuildInputValues(
         Added(BuildInputValue(st, nodes[1], parent, kind), Len(st.h) + 1, parent),
         Tail(nodes), parent, kind)

\* buildFieldDefinition, once the type is resolved
BuildFieldOfType(h, node, parentType, type) ==
  Referencing(
    BuildInputValues(
      Building(BuildAppliedDirectives(
        CreateFieldDefinition(h, "FieldDefinition", node.name, parentType, type),
        node.dirs, Len(h) + 1)),
      node.args, Len(h) + 1, "ArgumentDefinition"),
    Len(h) + 1, type)

BuildFieldDefinition(st, node, parentType) ==
  IF ~st.ok THEN st
  ELSE IF ~TypeNodeBuilds(node.type) THEN Thrown(st)
  ELSE BuildFieldOfType(st.h, node, parentType,
         BuildWrapperTypeOrTypeRef(st.h, node.type, SchemaOf(st.h, parentType)))

RECURSIVE BuildFields(_, _, _)
BuildFields(st, nodes, objectType) ==
  IF ~st.ok \/ nodes = <<>> THEN st
  ELSE BuildFields(
         Added(BuildFieldDefinition(st, nodes[1], objectType), Len(st.h) + 1, objectType),
         Tail(nodes), objectType)

\* addTypeToUnion, once the member is looked up: pushed, and the union
\* registered as its referencer
PushUnionType(h, type, unionType) ==
  Referencing(Building([h EXCEPT ![unionType].kids = Append(@, type)]),
              unionType, TypeRef(type, 0))

AddTypeToUnion(st, typeName, unionType) ==
  IF ~st.ok THEN st
  ELSE PushUnionType(st.h, SchemaType(st.h, SchemaOf(st.h, unionType), typeName), unionType)

RECURSIVE AddTypesToUnion(_, _, _)
AddTypesToUnion(st, names, unionType) ==
  IF ~st.ok \/ names = <<>> THEN st
  ELSE AddTypesToUnion(AddTypeToUnion(st, names[1], unionType), Tail(names), unionType)

\* addRoot, once the type is looked up
SetRootOfType(h, root, type, schemaDefinition) ==
  Referencing(Building([h EXCEPT ![schemaDefinition].roots[root] = type]),
              schemaDefinition, TypeRef(type, 0))

AddRoot(st, root, typeName, schemaDefinition) ==
  IF ~st.ok THEN st
  ELSE SetRootOfType(st.h, root,
         SchemaType(st.h, SchemaOf(st.h, schemaDefinition), typeName), schemaDefinition)

RECURSIVE AddRoots(_, _, _)
AddRoots(st, ops, schemaDefinition) ==
  IF ~st.ok \/ ops = <<>> THEN st
  ELSE AddRoots(AddRoot(st, ops[1].operation, ops[1].type, schemaDefinition),
                Tail(ops), schemaDefinition)

\* buildSchemaDefinition: the new schema definition is object Len(st.h) + 1
BuildSchemaDefinition(st, node, schema) ==
  AddRoots(
    Building(BuildAppliedDirectives(AddSchemaDefinition(st.h, schema), node.dirs,
                                    Len(st.h) + 1)),
    node.ops, Len(st.h) + 1)

\* buildNamedTypeInner, after buildAppliedDirectives
BuildNamedTypeBody(st, node, type) ==
  CASE node.kind = "ObjectTypeDefinition" -> BuildFields(st, node.fields, type)
    [] node.kind = "UnionTypeDefinition" -> AddTypesToUnion(st, node.types, type)
    [] node.kind = "InputObjectTypeDefinition" ->
         BuildInputValues(st, node.fields, type, "InputFieldDefinition")
    [] node.kind \in {"InterfaceTypeDefinition", "EnumTypeDefinition"} -> Thrown(st)
    [] OTHER -> st

\* buildNamedTypeInner
BuildNamedTypeInner(st, node, type) ==
  BuildNamedTypeBody(Building(BuildAppliedDirectives(st.h, node.dirs, type)), node, type)

\* buildDirectiveDefinition, then addDirectiveDefinition
DirectiveDefinitionAdded(st, d, schema) ==
  IF ~st.ok THEN st ELSE Building(AddDirectiveDefinition(st.h, d, schema))

BuildDirectiveDefinition(st, node, schema) ==
  DirectiveDefinitionAdded(
    BuildInputValues(Building(CreateDirectiveDefinition(st.h, node.name, schema)),
                     node.args, Len(st.h) + 1, "ArgumentDefinition"),
    Len(st.h) + 1, schema)

RECURSIVE BuildNamedTypeShallow(_, _, _)
\* buildNamedTypeShallow: pass 1, an empty shell for every type definition
BuildNamedTypeShallow(st, defs, schema) ==
  IF ~st.ok \/ defs = <<>> THEN st
  ELSE IF defs[1].kind \in ExtensionKinds THEN Thrown(st)
  ELSE IF defs[1].kind \notin TypeDefinitionKinds
  THEN BuildNamedTypeShallow(st, Tail(defs), schema)
  ELSE IF WithoutTrailingDefinition(defs[1].kind) \notin NamedTypeKinds
  THEN Thrown(st)
  ELSE BuildNamedTypeShallow(
         Building(AddTypeDefinition(
           CreateNamedType(st.h, WithoutTrailingDefinition(defs[1].kind),
                           defs[1].name, schema),
           Len(st.h) + 1, schema)),
         Tail(defs), schema)

\* one turn of the loop of buildSchemaInternal
BuildDefinition(st, node, schema) ==
  CASE node.kind \in ExecutableKinds -> Thrown(st)
    [] node.kind \in ExtensionKinds -> Thrown(st)
    [] node.kind = "SchemaDefinition" -> BuildSchemaDefinition(st, node, schema)
    [] node.kind \in TypeDefinitionKinds ->
         BuildNamedTypeInner(st, node, SchemaType(st.h, schema, node.name))
    [] node.kind = "DirectiveDefinition" -> BuildDirectiveDefinition(st, node, schema)
    [] OTHER -> st

RECURSIVE BuildDefinitions(_, _, _)
\* the loop of buildSchemaInternal: pass 2
BuildDefinitions(st, defs, schema) ==
  IF ~st.ok \/ defs = <<>> THEN st
  ELSE BuildDefinitions(BuildDefinition(st, defs[1], schema), Tail(defs), schema)

\* buildSchemaInternal: the new schema is object Len(h) + 1 of the result
BuildSchemaInternal(h, document, isMutable) ==
  BuildDefinitions(
    BuildNamedTypeShallow(Building(CtorsSchema(h, isMutable)), document, Len(h) + 1),
    document, Len(h) + 1)

\* ---------------------------------------------------------------- removal
\* BaseElement.removeTypeReference: the method the remove() of every named
\* type invokes on each referencer, through BaseElement.prototype and
\* Function.call, which does not dispatch to the referencer's own override.
BaseRemoveTypeReference(h, r, type) == h

\* MutableDirective.remove, once indexOf has run.  A directive whose parent
\* does not list it trips the method's assertion before anything is changed.
DirectiveSplice(h, d, p, index) ==
  IF index = 0 THEN h
  ELSE [h EXCEPT ![p].dirs = Splice(@, index), ![d].parent = Undef]

\* A removal that reports success whatever the directive's state.
DirectiveRemoveReturnTrue(h, d) == TRUE

\* What MutableDirective.remove returns: false for a directive without a
\* parent, true once it has been spliced out.
DirectiveRemoveReturn(h, d) == h[d].parent # Undef

\* MutableDirective.remove
DirectiveRemove(h, d) ==
  IF h[d].parent = Undef THEN h
  ELSE DirectiveSplice(h, d, h[d].parent, IndexOf(h[h[d].parent].dirs, d))

RECURSIVE RemoveAppliedDirectives(_, _, _)
\* for (const directive of this._appliedDirectives) directive.remove():
\* the array iterator reads position i of the array as it is at that moment,
\* while each remove() splices the array
RemoveAppliedDirectives(h, e, i) ==
  IF i > Len(h[e].dirs) THEN h
  ELSE RemoveAppliedDirectives(DirectiveRemove(h, h[e].dirs[i]), e, i + 1)

\* MutableArgumentDefinition.remove
ArgumentRemove(h, a) ==
  IF h[a].parent = Undef THEN h
  ELSE [h EXCEPT ![h[a].parent].kids = MapDelete(h, @, h[a].name),
                 ![a].parent = Undef, ![a].type = NoType, ![a].dflt = Undef]

RECURSIVE RemoveEach(_, _, _), FieldRemove(_, _)
\* MutableFieldDefinition.remove / MutableInputFieldDefinition.remove
FieldRemove(h, f) ==
  IF h[f].parent = Undef THEN h
  ELSE IF h[f].kind = "FieldDefinition"
  THEN RemoveEach([h EXCEPT ![h[f].parent].kids = MapDelete(h, @, h[f].name),
                            ![f].parent = Undef, ![f].type = NoType],
                  f, h[f].kids)
  ELSE [h EXCEPT ![h[f].parent].kids = MapDelete(h, @, h[f].name),
                 ![f].parent = Undef, ![f].type = NoType]

\* for (const x of map.values()) x.remove(): a Map iterator visits, in
\* insertion order, the entries still present when it reaches them
RemoveEach(h, owner, todo) ==
  IF todo = <<>> THEN h
  ELSE RemoveEach(IF todo[1] \notin SeqToSet(h[owner].kids) THEN h
                  ELSE IF h[todo[1]].kind = "ArgumentDefinition"
                  THEN ArgumentRemove(h, todo[1])
                  ELSE FieldRemove(h, todo[1]),
                  owner, Tail(todo))

RECURSIVE NotifyReferencers(_, _, _)
\* [...this._referencers].map(r => removeTypeReference.call(r, this))
NotifyReferencers(h, rs, t) ==
  IF rs = {} THEN h
  ELSE NotifyReferencers(BaseRemoveTypeReference(h, CHOOSE x \in rs : TRUE, t),
                         rs \ {CHOOSE x \in rs : TRUE}, t)

\* remove() of a named type, step by step: out of the schema's map and
\* parent cleared; children removed; referencers notified and forgotten
TypeDetach(h, t) ==
  [RemoveTypeDefinition(h, t, h[t].parent) EXCEPT ![t].parent = Undef]

TypeRemoveChildren(h, t) ==
  CASE h[t].kind \in {"ObjectType", "InputObjectType"} -> RemoveEach(h, t, h[t].kids)
    [] h[t].kind = "UnionType" -> [h EXCEPT ![t].kids = <<>>]
    [] OTHER -> h

TypeClearReferencers(h, t) ==
  [NotifyReferencers(h, h[t].refs, t) EXCEPT ![t].refs = {}]

\* remove() of MutableScalarType, MutableObjectType, MutableUnionType and
\* MutableInputObjectType; TypeRemoveReturn is the list it returns
TypeRemoveReturn(h, t) == IF h[t].parent = Undef THEN {} ELSE h[t].refs

TypeRemove(h, t) ==
  IF h[t].parent = Undef THEN h
  ELSE TypeClearReferencers(
         TypeRemoveChildren(RemoveAppliedDirectives(TypeDetach(h, t), t, 1), t), t)

\* --------------------------------------------------- mutable-view methods
\* Each method is a pair: whether it throws, and the heap it leaves when
\* it does not.

\* MutableSchema.addType (ensureTypeNotFound); addScalarType checks the
\* built-in names first
AddTypeThrows(h, s, kind, name) ==
  \/ kind = "ScalarType" /\ MapGet(h, h[s].builtins, name) # Undef
  \/ SchemaType(h, s, name) # Undef

\* MutableSchema.addObjectType / addScalarType: the new type is object Len(h) + 1
AddType(h, s, kind, name) ==
  AddTypeDefinition(CreateNamedType(h, kind, name, s), Len(h) + 1, s)

\* An addOrGetType that refuses every taken name, as addType does.
AddOrGetTypeThrowsTaken(h, s, kind, name) == AddTypeThrows(h, s, kind, name)

\* MutableSchema.addOrGetType: an existing user type of the name decides
\* (the built-ins are not looked at); else the adder runs, addObjectType or
\* addScalarType
AddOrGetTypeThrows(h, s, kind, name) ==
  IF MapGet(h, h[s].kids, name) # Undef
  THEN h[MapGet(h, h[s].kids, name)].kind # kind
  ELSE AddTypeThrows(h, s, kind, name)

AddOrGetType(h, s, kind, name) ==
  IF MapGet(h, h[s].kids, name) # Undef THEN h ELSE AddType(h, s, kind, name)

\* what addOrGetType returns: the existing type, or the new object Len(h) + 1
AddOrGetTypeReturn(h, s, name) ==
  IF MapGet(h, h[s].kids, name) # Undef THEN MapGet(h, h[s].kids, name)
  ELSE Len(h) + 1

\* MutableObjectType.addField / MutableInputObjectType.addField
AddFieldThrows(h, o, name, type) ==
  \/ MapGet(h, h[o].kids, name) # Undef
  \/ TypeSchema(h, type) # SchemaOf(h, o)

AddField(h, o, name, type) ==
  AddFieldTo(CreateFieldDefinition(h,
               IF h[o].kind = "ObjectType" THEN "FieldDefinition"
               ELSE "InputFieldDefinition",
               name, o, type),
             Len(h) + 1, o)

\* MutableFieldDefinition.setType / MutableInputFieldDefinition.setType
SetTypeThrows(h, f, type) ==
  \/ SchemaOf(h, f) = Undef
  \/ TypeSchema(h, type) # SchemaOf(h, f)

SetType(h, f, type) == [h EXCEPT ![f].type = type]

\* MutableUnionType.addType
UnionAddTypeThrows(h, u, t) == SchemaOf(h, t) # SchemaOf(h, u)

UnionAddType(h, u, t) ==
  IF t \in SeqToSet(h[u].kids) THEN h ELSE [h EXCEPT ![u].kids = Append(@, t)]

\* MutableSchemaDefinition.setRoot
SetRootThrows(h, sd, t) == SchemaOf(h, t) # SchemaOf(h, sd)

SetRoot(h, sd, root, t) == [h EXCEPT ![sd].roots[root] = t]

\* MutableDirectiveDefinition.addArgument
AddArgumentThrows(h, d, type) ==
  \/ SchemaOf(h, d) = Undef
  \/ TypeSchema(h, type) # SchemaOf(h, d)

AddArgument(h, d, name, type, value) ==
  AddDirectiveArg(CreateArgumentDefinition(h, name, d, type, value), Len(h) + 1, d)

\* applyDirective of every mutable element; MutableScalarType refuses the
\* built-in names
ApplyDirectiveThrows(h, e) ==
  h[e].kind = "ScalarType" /\ h[e].name \in SeqToSet(builtInTypes)

ApplyDirective(h, e, name, args) ==
  AddAppliedDirective(CreateDirective(h, name, e, args), e, Len(h) + 1)

\* ------------------------------------------------------------------- copy
\* Ctors.checkDetached: the immutable world refuses undefined
CheckDetachedThrows(destMutable) == ~destMutable

\* A copy that keeps the source's type object instead of looking the name
\* up in the destination: what copyWrapperTypeOrTypeRef must not do.
CopyWrapperTypeOrTypeRefShared(h, source, destSchema) == source

\* copyWrapperTypeOrTypeRef: the type of the same name in the destination
CopyWrapperTypeOrTypeRef(h, source, destSchema) ==
  IF source.base = Undef THEN NoType
  ELSE TypeRef(SchemaType(h, destSchema, h[source.base].name), source.depth)

RECURSIVE CopyAppliedDirectives(_, _, _)
\* copyAppliedDirectives / copyDirective: todo is what is left of the
\* source's applied directives
CopyAppliedDirectives(h, todo, dest) ==
  IF todo = <<>> THEN h
  ELSE CopyAppliedDirectives(
         AddAppliedDirective(CreateDirective(h, h[todo[1]].name, dest, h[todo[1]].dargs),
                             dest, Len(h) + 1),
         Tail(todo), dest)

\* copyFieldArgumentDefinition / copyDirectiveArgumentDefinition /
\* copyInputFieldDefinition, once the type is copied
CopyInputValueOfType(h, source, destParent, type) ==
  Referencing(
    Building(CopyAppliedDirectives(
      IF h[source].kind = "ArgumentDefinition"
      THEN CreateArgumentDefinition(h, h[source].name, destParent, type, h[source].dflt)
      ELSE CreateFieldDefinition(h, h[source].kind, h[source].name, destParent, type),
      h[source].dirs, Len(h) + 1)),
    Len(h) + 1, type)

CopyInputValue(st, source, destParent) ==
  IF ~st.ok THEN st
  ELSE IF /\ st.h[source].type.base = Undef
          /\ CheckDetachedThrows(st.h[SchemaOf(st.h, destParent)].mutable)
  THEN Thrown(st)
  ELSE CopyInputValueOfType(st.h, source, destParent,
         CopyWrapperTypeOrTypeRef(st.h, st.h[source].type, SchemaOf(st.h, destParent)))

RECURSIVE CopyInputValues(_, _, _)
CopyInputValues(st, todo, destParent) ==
  IF ~st.ok \/ todo = <<>> THEN st
  ELSE CopyInputValues(
         Added(CopyInputValue(st, todo[1], destParent), Len(st.h) + 1, destParent),
         Tail(todo), destParent)

\* copyFieldDefinition, once the type is copied
CopyFieldOfType(h, source, destParent, type) ==
  Referencing(
    CopyInputValues(
      Building(CopyAppliedDirectives(
        CreateFieldDefinition(h, "FieldDefinition", h[source].name, destParent, type),
        h[source].dirs, Len(h) + 1)),
      h[source].kids, Len(h) + 1),
    Len(h) + 1, type)

CopyFieldDefinition(st, source, destParent) ==
  IF ~st.ok THEN st
  ELSE IF /\ st.h[source].type.base = Undef
          /\ CheckDetachedThrows(st.h[SchemaOf(st.h, destParent)].mutable)
  THEN Thrown(st)
  ELSE CopyFieldOfType(st.h, source, destParent,
         CopyWrapperTypeOrTypeRef(st.h, st.h[source].type, SchemaOf(st.h, destParent)))

RECURSIVE CopyFields(_, _, _)
CopyFields(st, todo, destParent) ==
  IF ~st.ok \/ todo = <<>> THEN st
  ELSE CopyFields(
         Added(CopyFieldDefinition(st, todo[1], destParent), Len(st.h) + 1, destParent),
         Tail(todo), destParent)

RECURSIVE CopyUnionTypes(_, _, _)
CopyUnionTypes(st, todo, destUnion) ==
  IF ~st.ok \/ todo = <<>> THEN st
  ELSE CopyUnionTypes(AddTypeToUnion(st, st.h[todo[1]].name, destUnion),
                      Tail(todo), destUnion)

\* copyNamedTypeInner, after copyAppliedDirectives
CopyNamedTypeBody(st, source, dest) ==
  CASE st.h[source].kind = "ObjectType" -> CopyFields(st, st.h[source].kids, dest)
    [] st.h[source].kind = "UnionType" -> CopyUnionTypes(st, st.h[source].kids, dest)
    [] st.h[source].kind = "InputObjectType" ->
         CopyInputValues(st, st.h[source].kids, dest)
    [] OTHER -> st

\* copyNamedTypeInner
CopyNamedTypeInner(st, source, dest) ==
  IF ~st.ok THEN st
  ELSE CopyNamedTypeBody(Building(CopyAppliedDirectives(st.h, st.h[source].dirs, dest)),
                         source, dest)

RECURSIVE CopyNamedTypesShallow(_, _, _)
\* first loop of copy: copyNamedTypeShallow, then addTypeDefinition
CopyNamedTypesShallow(h, todo, dest) ==
  IF todo = <<>> THEN h
  ELSE CopyNamedTypesShallow(
         AddTypeDefinition(CreateNamedType(h, h[todo[1]].kind, h[todo[1]].name, dest),
                           Len(h) + 1, dest),
         Tail(todo), dest)

RECURSIVE CopyRoots(_, _, _, _)
CopyRoots(st, todo, source, dest) ==
  IF ~st.ok \/ todo = {} THEN st
  ELSE CopyRoots(AddRoot(st, CHOOSE x \in todo : TRUE,
                         st.h[st.h[source].roots[CHOOSE x \in todo : TRUE]].name, dest),
                 todo \ {CHOOSE x \in todo : TRUE}, source, dest)

\* copySchemaDefinitionInner, after the roots
SchemaDefinitionDirectivesCopied(st, source, dest) ==
  IF ~st.ok THEN st
  ELSE Building(CopyAppliedDirectives(st.h, st.h[source].dirs, dest))

\* copySchemaDefinitionInner
CopySchemaDefinitionInner(st, source, dest) ==
  SchemaDefinitionDirectivesCopied(
    CopyRoots(st, {r \in SchemaRoots : st.h[source].roots[r] # Undef}, source, dest),
    source, dest)

RECURSIVE CopyNamedTypesInner(_, _, _)
CopyNamedTypesInner(st, todo, dest) ==
  IF ~st.ok \/ todo = <<>> THEN st
  ELSE CopyNamedTypesInner(
         CopyNamedTypeInner(st, todo[1], SchemaType(st.h, dest, st.h[todo[1]].name)),
         Tail(todo), dest)

\* copyDirectiveDefinition, then addDirectiveDefinition
CopyDirectiveDefinition(st, source, dest) ==
  DirectiveDefinitionAdded(
    CopyInputValues(Building(CreateDirectiveDefinition(st.h, st.h[source].name, dest)),
                    st.h[source].kids, Len(st.h) + 1),
    Len(st.h) + 1, dest)

RECURSIVE CopyDirectiveDefinitions(_, _, _)
CopyDirectiveDefinitions(st, todo, dest) ==
  IF ~st.ok \/ todo = <<>> THEN st
  ELSE CopyDirectiveDefinitions(CopyDirectiveDefinition(st, todo[1], dest),
                                Tail(todo), dest)

\* copy, after the shallow copies of the types: dest is the new schema, and
\* its schema definition the object after its five built-ins
CopyInner(h, source, dest) ==
  CopyDirectiveDefinitions(
    CopyNamedTypesInner(
      CopySchemaDefinitionInner(Building(h), h[source].sdef, h[dest].sdef),
      h[source].kids, dest),
    h[source].ddefs, dest)

\* copy (Schema.toMutable, MutableSchema.toImmutable): the new schema is
\* object Len(h) + 1 of the result.  Reading source.schemaDefinition of a
\* schema that has none fails the getter's assertion.
Copy(h, source, destMutable) ==
  IF h[source].sdef = Undef THEN Thrown(Building(h))
  ELSE CopyInner(
         CopyNamedTypesShallow(
           AddSchemaDefinition(CtorsSchema(h, destMutable), Len(h) + 1),
           h[source].kids, Len(h) + 1),
         source, Len(h) + 1)

\* -------------------------------------------------------------- documents
\* schema { query: Q }
\* type Q @k(p: 1) @k(p: 2) { a(x: I): S  u: [U] }
\* scalar S    union U = Q    input I { v: S }
\* directive @k(p: S) on OBJECT
DocMain ==
  << [DefNode("SchemaDefinition", "") EXCEPT
        !.ops = <<OperationTypeNode("query", "Q")>>],
     [DefNode("ObjectTypeDefinition", "Q") EXCEPT
        !.dirs = <<DirectiveNode("k", <<<<"p", 1>>>>), DirectiveNode("k", <<<<"p", 2>>>>)>>,
        !.fields = <<FieldNode("a", TypeNode("S", 0),
                               <<InputValueNode("x", TypeNode("I", 0), <<>>, 1)>>, <<>>),
                     FieldNode("u", TypeNode("U", 1), <<>>, <<>>)>>],
     DefNode("ScalarTypeDefinition", "S"),
     [DefNode("UnionTypeDefinition", "U") EXCEPT !.types = <<"Q">>],
     [DefNode("InputObjectTypeDefinition", "I") EXCEPT
        !.fields = <<InputValueNode("v", TypeNode("S", 0), <<>>, Undef)>>],
     [DefNode("DirectiveDefinition", "k") EXCEPT
        !.args = <<InputValueNode("p", TypeNode("S", 0), <<>>, Undef)>>] >>

\* type T { f: Int }      (a document without a schema definition)
DocBare ==
  << [DefNode("ObjectTypeDefinition", "T") EXCEPT
        !.fields = <<FieldNode("f", TypeNode("Int", 0), <<>>, <<>>)>>] >>

\* schema { query: Q }  type Q { s: S }  scalar S
DocOther ==
  << [DefNode("SchemaDefinition", "") EXCEPT
        !.ops = <<OperationTypeNode("query", "Q")>>],
     [DefNode("ObjectTypeDefinition", "Q") EXCEPT
        !.fields = <<FieldNode("s", TypeNode("S", 0), <<>>, <<>>)>>],
     DefNode("ScalarTypeDefinition", "S") >>

\* scalar Int      (a user definition under the name of a built-in)
DocShadow == << DefNode("ScalarTypeDefinition", "Int") >>

InitDocuments == {DocMain, DocBare}
ParseDocuments == {DocOther, DocShadow}

\* Names and values the callers pass.
NewTypeNames == {"Q", "N"}
NewFieldNames == {"a", "n"}
AddOrGetNames == {"Q", "S", "N", "Int"}
RootArgs == {"query", "mutation"}
DirectiveArgs == <<<<"p", 1>>>>

\* ------------------------------------------------------------ the program
Schemas(h) == {s \in Ids(h) : h[s].kind = "Schema"}
IsMutable(h, e) == h[e].home # Undef /\ h[h[e].home].mutable
NamedTypes(h) == {t \in Ids(h) : h[t].kind \in NamedTypeKinds}
IsBuiltIn(h, t) == \E s \in Schemas(h) : t \in SeqToSet(h[s].builtins)
Fields(h) == {f \in Ids(h) : h[f].kind \in {"FieldDefinition", "InputFieldDefinition"}}
Typed(h) == {f \in Ids(h) : h[f].kind \in
               {"FieldDefinition", "InputFieldDefinition", "ArgumentDefinition"}}

\* The types a caller can pass to a mutable method: the user types of the
\* mutable schemas (attached or not), the built-in Int, and the list types
\* it can read off existing fields.
OutputTypeArgs(h) ==
  {TypeRef(t, 0) : t \in {x \in NamedTypes(h) :
       /\ IsMutable(h, x)
       /\ h[x].kind \in {"ScalarType", "ObjectType", "UnionType"}
       /\ (IsBuiltIn(h, x) => h[x].name = "Int")}}
  \cup {h[f].type : f \in {x \in Fields(h) : IsMutable(h, x) /\ h[x].type.depth > 0}}
InputTypeArgs(h) ==
  {TypeRef(t, 0) : t \in {x \in NamedTypes(h) :
       /\ IsMutable(h, x)
       /\ h[x].kind \in {"ScalarType", "InputObjectType"}
       /\ (IsBuiltIn(h, x) => h[x].name = "Int")}}

Done(op, ok, recv, name, type, ret, res) ==
  [op |-> op, ok |-> ok, recv |-> recv, name |-> name, type |-> type,
   ret |-> ret, res |-> res]

Step(h, l) ==
  /\ nops < MaxOps
  /\ nops' = nops + 1
  /\ heap' = h
  /\ last' = l
  /\ applied' = applied \cup {l.op}
  /\ UNCHANGED <<doc, thisScope, thatScope, subgraph, subgraphs, result>>

\* The step of an operation that returns a new schema, or throws and
\* leaves nothing behind.
Built(op, st, source) ==
  Step(IF st.ok THEN st.h ELSE heap,
       Done(op, st.ok, source, "", NoType, {}, IF st.ok THEN Len(heap) + 1 ELSE Undef))

\* MutableSchema.empty()
EmptySchema == AddSchemaDefinition(CtorsSchema(<<>>, TRUE), 1)

Init ==
  /\ heap \in {EmptySchema}
               \cup {BuildSchemaInternal(<<>>, d, TRUE).h : d \in InitDocuments}
  /\ last = Done("init", TRUE, 1, "", NoType, {}, 1)
  /\ nops = 0
  /\ applied = {}
  /\ doc = <<>>
  /\ thisScope = <<>>
  /\ thatScope = <<>>
  /\ subgraph = <<>>
  /\ subgraphs = <<>>
  /\ result = <<>>

\* MutableSchema.parse / Schema.parse
ParseOp ==
  \E d \in ParseDocuments, m \in BOOLEAN :
    /\ Cardinality(Schemas(heap)) < MaxSchemas
    /\ Built("parse", BuildSchemaInternal(heap, d, m), Undef)

\* MutableSchema.toImmutable / Schema.toMutable
CopyOp ==
  \E s \in Schemas(heap) :
    /\ Cardinality(Schemas(heap)) < MaxSchemas
    /\ Built("copy", Copy(heap, s, ~heap[s].mutable), s)

AddObjectTypeOp ==
  \E s \in Schemas(heap), n \in NewTypeNames \cup {"Int"} :
    /\ heap[s].mutable
    /\ IF AddTypeThrows(heap, s, "ObjectType", n)
       THEN Step(heap, Done("addObjectType", FALSE, s, n, NoType, {}, Undef))
       ELSE Step(AddType(heap, s, "ObjectType", n),
                 Done("addObjectType", TRUE, s, n, NoType, {}, Len(heap) + 1))

AddScalarTypeOp ==
  \E s \in Schemas(heap), n \in NewTypeNames \cup {"Int"} :
    /\ heap[s].mutable
    /\ IF AddTypeThrows(heap, s, "ScalarType", n)
       THEN Step(heap, Done("addScalarType", FALSE, s, n, NoType, {}, Undef))
       ELSE Step(AddType(heap, s, "ScalarType", n),
                 Done("addScalarType", TRUE, s, n, NoType, {}, Len(heap) + 1))

\* MutableSchema.addOrGetObjectType / addOrGetScalarType
AddOrGetTypeOp ==
  \E s \in Schemas(heap), n \in AddOrGetNames, k \in {"ObjectType", "ScalarType"} :
    /\ heap[s].mutable
    /\ IF AddOrGetTypeThrows(heap, s, k, n)
       THEN Step(heap, Done("addOrGet" \o k, FALSE, s, n, NoType, {}, Undef))
       ELSE Step(AddOrGetType(heap, s, k, n),
                 Done("addOrGet" \o k, TRUE, s, n, NoType, {},
                      AddOrGetTypeReturn(heap, s, n)))

AddFieldOp ==
  \E o \in Ids(heap), n \in NewFieldNames :
    /\ IsMutable(heap, o)
    /\ heap[o].kind \in {"ObjectType", "InputObjectType"}
    /\ \E t \in IF heap[o].kind = "ObjectType" THEN OutputTypeArgs(heap)
                ELSE InputTypeArgs(heap) :
         IF AddFieldThrows(heap, o, n, t)
         THEN Step(heap, Done("addField", FALSE, o, n, t, {}, Undef))
         ELSE Step(AddField(heap, o, n, t),
                   Done("addField", TRUE, o, n, t, {}, Len(heap) + 1))

SetTypeOp ==
  \E f \in Fields(heap) :
    /\ IsMutable(heap, f)
    /\ \E t \in IF heap[f].kind = "FieldDefinition" THEN OutputTypeArgs(heap)
                ELSE InputTypeArgs(heap) :
         IF SetTypeThrows(heap, f, t)
         THEN Step(heap, Done("setType", FALSE, f, "", t, {}, Undef))
         ELSE Step(SetType(heap, f, t), Done("setType", TRUE, f, "", t, {}, f))

UnionAddTypeOp ==
  \E u \in Ids(heap), t \in Ids(heap) :
    /\ IsMutable(heap, u) /\ heap[u].kind = "UnionType"
    /\ IsMutable(heap, t) /\ heap[t].kind = "ObjectType"
    /\ IF UnionAddTypeThrows(heap, u, t)
       THEN Step(heap, Done("addType", FALSE, u, "", TypeRef(t, 0), {}, Undef))
       ELSE Step(UnionAddType(heap, u, t),
                 Done("addType", TRUE, u, "", TypeRef(t, 0), {}, Undef))

\* schema.schemaDefinition.setRoot(root, type): the getter's assertion fails
\* on a schema without schema definition
SetRootOp ==
  \E s \in Schemas(heap), r \in RootArgs, t \in Ids(heap) :
    /\ heap[s].mutable
    /\ IsMutable(heap, t) /\ heap[t].kind = "ObjectType"
    /\ IF heap[s].sdef = Undef \/ SetRootThrows(heap, heap[s].sdef, t)
       THEN Step(heap, Done("setRoot", FALSE, heap[s].sdef, r, TypeRef(t, 0), {}, Undef))
       ELSE Step(SetRoot(heap, heap[s].sdef, r, t),
                 Done("setRoot", TRUE, heap[s].sdef, r, TypeRef(t, 0), {}, t))

AddArgumentOp ==
  \E d \in Ids(heap), t \in InputTypeArgs(heap) :
    /\ IsMutable(heap, d) /\ heap[d].kind = "DirectiveDefinition"
    /\ IF AddArgumentThrows(heap, d, t)
       THEN Step(heap, Done("addArgument", FALSE, d, "n", t, {}, Undef))
       ELSE Step(AddArgument(heap, d, "n", t, Undef),
                 Done("addArgument", TRUE, d, "n", t, {}, Len(heap) + 1))

ApplyDirectiveOp ==
  \E e \in Ids(heap) :
    /\ IsMutable(heap, e)
    /\ heap[e].kind \in NamedTypeKinds \cup
         {"SchemaDefinition", "FieldDefinition", "InputFieldDefinition", "ArgumentDefinition"}
    /\ IsBuiltIn(heap, e) => heap[e].name = "Int"
    /\ IF ApplyDirectiveThrows(heap, e)
       THEN Step(heap, Done("applyDirective", FALSE, e, "k", NoType, {}, Undef))
       ELSE Step(ApplyDirective(heap, e, "k", DirectiveArgs),
                 Done("applyDirective", TRUE, e, "k", NoType, {}, Len(heap) + 1))

RemoveTypeOp ==
  \E t \in NamedTypes(heap) :
    /\ IsMutable(heap, t)
    /\ IsBuiltIn(heap, t) => heap[t].name = "Int"
    /\ Step(TypeRemove(heap, t),
            Done("removeType", TRUE, t, "", NoType, TypeRemoveReturn(heap, t), Undef))

RemoveFieldOp ==
  \E f \in Fields(heap) :
    /\ IsMutable(heap, f)
    /\ Step(FieldRemove(heap, f), Done("removeField", TRUE, f, "", NoType, {}, Undef))

RemoveArgumentOp ==
  \E a \in Ids(heap) :
    /\ IsMutable(heap, a) /\ heap[a].kind = "ArgumentDefinition"
    /\ Step(ArgumentRemove(heap, a), Done("removeArgument", TRUE, a, "", NoType, {}, Undef))

RemoveDirectiveOp ==
  \E d \in Ids(heap) :
    /\ IsMutable(heap, d) /\ heap[d].kind = "Directive"
    /\ Step(DirectiveRemove(heap, d),
            Done("removeDirective", TRUE, d, "", NoType,
                 {DirectiveRemoveReturn(heap, d)}, Undef))

Next ==
  \/ ParseOp
  \/ CopyOp
  \/ AddObjectTypeOp
  \/ AddScalarTypeOp
  \/ AddOrGetTypeOp
  \/ AddFieldOp
  \/ SetTypeOp
  \/ UnionAddTypeOp
  \/ SetRootOp
  \/ AddArgumentOp
  \/ ApplyDirectiveOp
  \/ RemoveTypeOp
  \/ RemoveFieldOp
  \/ RemoveArgumentOp
  \/ RemoveDirectiveOp

Spec == Init /\ [][Next]_vars

\* ------------------------------------------------------------- properties
\* The named types an element references: the base of its type for a field,
\* an input field or an argument, its members for a union, the types bound
\* to its roots for a schema definition.
RefTargets(h, e) ==
  CASE h[e].kind \in {"FieldDefinition", "InputFieldDefinition", "ArgumentDefinition"} ->
         {h[e].type.base} \ {Undef}
    [] h[e].kind = "UnionType" -> SeqToSet(h[e].kids) \ {Undef}
    [] h[e].kind = "SchemaDefinition" -> {h[e].roots[r] : r \in SchemaRoots} \ {Undef}
    [] OTHER -> {}

\* The operations of the mutable view that build a schema up.
BuildingOps ==
  {"parse", "addObjectType", "addScalarType", "addField", "setType", "addType",
   "setRoot", "addArgument"}

\* Every attached element of a mutable schema is a referencer of each type
\* it references.
ReferencerSymmetry(h) ==
  \A e \in Ids(h) :
    (SchemaOf(h, e) # Undef /\ h[SchemaOf(h, e)].mutable)
      => \A t \in RefTargets(h, e) : e \in h[t].refs

\* C1: in every mutable schema reached by parse, addObjectType,
\* addScalarType, addField, setType, union addType, setRoot and addArgument
\* calls only, every attached element that references a named type is in
\* that type's referencer set.
C1_ReferencerSymmetry == applied \subseteq BuildingOps => ReferencerSymmetry(heap)

\* The children a named type owns: its fields, their arguments, and the
\* directives applied to it.
FieldsOfType(h, t) ==
  IF h[t].kind \in {"ObjectType", "InputObjectType"} THEN SeqToSet(h[t].kids) ELSE {}
ChildrenOfType(h, t) ==
  FieldsOfType(h, t)
    \cup UNION {SeqToSet(h[f].kids) : f \in FieldsOfType(h, t)}
    \cup SeqToSet(h[t].dirs)

\* A step that is the call of remove() on a named type attached to a schema.
RemovesAttachedType ==
  /\ last'.op = "removeType"
  /\ nops' = nops + 1
  /\ SchemaOf(heap, last'.recv) # Undef

\* C2: after T.remove() on an attached type T, T is not in the schema's
\* type map any more and each of its fields, of their arguments and of its
\* applied directives has no parent.
C2_RemoveDetachesChildren ==
  [][RemovesAttachedType =>
       /\ last'.recv \notin SeqToSet(heap'[SchemaOf(heap, last'.recv)].kids)
       /\ \A c \in ChildrenOfType(heap, last'.recv) : heap'[c].parent = Undef]_vars

\* C3: after T.remove() on an attached type T, every element still attached
\* to the schema that still references T is in the list remove() returned.
C3_NoSilentDangling ==
  [][RemovesAttachedType =>
       \A e \in Ids(heap') :
         (/\ SchemaOf(heap', e) = SchemaOf(heap, last'.recv)
          /\ last'.recv \in RefTargets(heap', e))
           => e \in last'.ret]_vars

\* C4: when T.remove() returns, every field, input field and argument of
\* T's referencer set whose type was T has no type any more.
C4_RemoveClearsFieldTypes ==
  [][RemovesAttachedType =>
       \A r \in heap[last'.recv].refs :
         (/\ heap[r].kind \in {"FieldDefinition", "InputFieldDefinition",
                               "ArgumentDefinition"}
          /\ heap[r].type = TypeRef(last'.recv, 0))
           => heap'[r].type = NoType]_vars

\* C5: when remove() of an object type T returns, no union that listed T
\* lists it any more, and no root of a schema definition is bound to T.
C5_RemoveClearsUnionsAndRoots ==
  [][(RemovesAttachedType /\ heap[last'.recv].kind = "ObjectType") =>
       \A e \in Ids(heap) :
         /\ heap[e].kind = "UnionType" => last'.recv \notin SeqToSet(heap'[e].kids)
         /\ heap[e].kind = "SchemaDefinition" =>
              \A r \in SchemaRoots : heap'[e].roots[r] # last'.recv]_vars

\* The structure of a schema, by names: its types with their fields,
\* arguments, members and directive applications, its roots and its
\* directive definitions.
TypeName(h, t) == <<IF t.base = Undef THEN "" ELSE h[t.base].name, t.depth>>
DirectivesStruct(h, e) ==
  [i \in 1..Len(h[e].dirs) |-> <<h[h[e].dirs[i]].name, h[h[e].dirs[i]].dargs>>]
ArgumentStruct(h, a) ==
  [name |-> h[a].name, type |-> TypeName(h, h[a].type), dflt |-> h[a].dflt,
   dirs |-> DirectivesStruct(h, a)]
FieldStruct(h, f) ==
  [name |-> h[f].name, type |-> TypeName(h, h[f].type),
   args |-> {ArgumentStruct(h, a) : a \in SeqToSet(h[f].kids)},
   dirs |-> DirectivesStruct(h, f)]
TypeStruct(h, t) ==
  [kind |-> h[t].kind, name |-> h[t].name, dirs |-> DirectivesStruct(h, t),
   fields |-> {FieldStruct(h, f) : f \in FieldsOfType(h, t)},
   members |-> IF h[t].kind = "UnionType"
               THEN {h[m].name : m \in SeqToSet(h[t].kids)} ELSE {}]
RootsStruct(h, sd) ==
  [r \in SchemaRoots |-> IF h[sd].roots[r] = Undef THEN "" ELSE h[h[sd].roots[r]].name]
Struct(h, s) ==
  [types |-> {TypeStruct(h, t) : t \in SeqToSet(h[s].kids)},
   roots |-> IF h[s].sdef = Undef THEN [r \in SchemaRoots |-> ""]
             ELSE RootsStruct(h, h[s].sdef),
   sdirs |-> IF h[s].sdef = Undef THEN <<>> ELSE DirectivesStruct(h, h[s].sdef),
   ddefs |-> {[name |-> h[d].name,
               args |-> {ArgumentStruct(h, a) : a \in SeqToSet(h[d].kids)}]
                : d \in SeqToSet(h[s].ddefs)}]

\* C6: toImmutable and toMutable complete on every schema and return a
\* schema structurally equal to their source; hence so does their round trip.
C6_CopyRoundTrip ==
  last.op = "copy" => (last.ok /\ Struct(heap, last.res) = Struct(heap, last.recv))

RECURSIVE Coordinate(_, _)
\* The place of an element in its schema: the kinds and names from the
\* schema down to it; nowhere for a detached element.
Coordinate(h, e) ==
  IF h[e].kind = "Schema" THEN <<>>
  ELSE IF h[e].parent = Undef THEN <<"detached">>
  ELSE Append(Coordinate(h, h[e].parent), <<h[e].kind, h[e].name>>)

DirectiveHolders(h, s) ==
  ({h[s].sdef} \ {Undef}) \cup SeqToSet(h[s].kids) \cup SeqToSet(h[s].builtins)
    \cup SeqToSet(h[s].ddefs)
    \cup UNION {FieldsOfType(h, t) : t \in SeqToSet(h[s].kids)}
    \cup UNION {SeqToSet(h[f].kids) :
                  f \in UNION {FieldsOfType(h, t) : t \in SeqToSet(h[s].kids)}}
    \cup UNION {SeqToSet(h[d].kids) : d \in SeqToSet(h[s].ddefs)}
Owned(h, s) ==
  {s} \cup DirectiveHolders(h, s)
      \cup UNION {SeqToSet(h[e].dirs) : e \in DirectiveHolders(h, s)}

\* The state of a schema: every object it owns, with all its fields (type
\* map, fields, types, applied directives, argument values, referencers).
View(h, s) == [e \in Owned(h, s) |-> h[e]]

\* The schema the step's operation is applied to: the new schema for parse
\* and copy, else the schema its receiver was created in.
TargetSchema ==
  IF last'.op \in {"parse", "copy"} THEN last'.res
  ELSE IF last'.recv = Undef THEN Undef
  ELSE heap[last'.recv].home

CallsAddField == last'.op = "addField" /\ nops' = nops + 1

\* C9: addField fails and leaves the receiver's field map as it was when a
\* field of that name exists, when the type is attached to another schema
\* than the receiver's, and when the type is detached, the receiver being
\* attached or not.
C9_AddFieldFails ==
  [][(/\ CallsAddField
      /\ \/ MapGet(heap, heap[last'.recv].kids, last'.name) # Undef
         \/ TypeSchema(heap, last'.type) = Undef
         \/ TypeSchema(heap, last'.type) # SchemaOf(heap, last'.recv))
       => (~last'.ok /\ heap'[last'.recv].kids = heap[last'.recv].kids)]_vars

\* A step that is the call of setType(newType) on a field or input field.
CallsSetType == last'.op = "setType" /\ nops' = nops + 1

\* C10: setType fails and leaves the field as it was when the field is
\* detached or the new type is of another schema; when it succeeds the
\* field has the new type, is a referencer of the new type and, unless its
\* base is the new type's, no longer one of the old type.
C10_SetType ==
  [][CallsSetType =>
       /\ (\/ SchemaOf(heap, last'.recv) = Undef
           \/ TypeSchema(heap, last'.type) # SchemaOf(heap, last'.recv))
            => (~last'.ok /\ heap'[last'.recv] = heap[last'.recv])
       /\ last'.ok =>
            /\ heap'[last'.recv].type = last'.type
            /\ last'.recv \in heap'[last'.type.base].refs
            /\ (heap[last'.recv].type.base \notin {Undef, last'.type.base})
                 => last'.recv \notin heap'[heap[last'.recv].type.base].refs]_vars

\* What the contract of an add-object-type call says of the step of the
\* operation op: it fails, changing nothing, when its schema has a type of
\* that name of another kind (a built-in scalar included), and returns the
\* existing type, changing nothing, when a user object type has the name.
AddsObjectTypeOrGets(op) ==
  (last'.op = op /\ nops' = nops + 1) =>
    /\ (/\ SchemaType(heap, last'.recv, last'.name) # Undef
        /\ heap[SchemaType(heap, last'.recv, last'.name)].kind # "ObjectType")
         => (~last'.ok /\ heap' = heap)
    /\ (/\ MapGet(heap, heap[last'.recv].kids, last'.name) # Undef
        /\ heap[MapGet(heap, heap[last'.recv].kids, last'.name)].kind = "ObjectType")
         => /\ last'.ok
            /\ last'.res = MapGet(heap, heap[last'.recv].kids, last'.name)
            /\ heap' = heap

\* C11 as stated, of addObjectType: it fails on a name taken by a type of
\* another kind and returns the existing object type of that name.
C11_AddObjectType == [][AddsObjectTypeOrGets("addObjectType")]_vars

\* C11: addOrGetObjectType fails on a name taken by a type of another kind
\* (a built-in scalar included) and returns the existing object type of that
\* name, the type map unchanged; addObjectType fails, changing nothing,
\* whenever any type has the name.
C11_AddOrGetObjectType ==
  [][/\ AddsObjectTypeOrGets("addOrGetObjectType")
     /\ (/\ last'.op = "addObjectType" /\ nops' = nops + 1
         /\ SchemaType(heap, last'.recv, last'.name) # Undef)
          => (~last'.ok /\ heap' = heap)]_vars

\* C11's case: addOrGetObjectType has returned a type that was there, with
\* its fields.
C11_Witness ==
  /\ last.op = "addOrGetObjectType"
  /\ last.ok
  /\ heap[last.res].kids # <<>>

\* No user type of a schema has the name of a built-in scalar.
BuiltInsDisjoint(h) ==
  \A s \in Schemas(h) :
    \A t \in SeqToSet(h[s].kids) : h[t].name \notin SeqToSet(builtInTypes)

\* C12: after parse, addScalarType, addOrGetScalarType, addObjectType and
\* copy operations no name of a built-in scalar is a key of a schema's type
\* map, and adding a scalar under such a name fails and changes nothing.
C12_BuiltInsDisjoint ==
  /\ [](applied \subseteq {"parse", "addScalarType", "addOrGetScalarType",
                           "addObjectType", "copy"} => BuiltInsDisjoint(heap))
  /\ [][(/\ last'.op \in {"addScalarType", "addOrGetScalarType"}
         /\ nops' = nops + 1
         /\ last'.name \in SeqToSet(builtInTypes))
          => (~last'.ok /\ heap' = heap)]_vars

\* ------------------------------------------------- parsing, document by document
\* The productions the builder does not support: interface and enum
\* definitions, type and schema extensions, non-null type wrappers.
UnsupportedDefinitions ==
  {DefNode(k, "X") :
     k \in {"InterfaceTypeDefinition", "EnumTypeDefinition"} \cup ExtensionKinds}

InsertAt(seq, i, x) == SubSeq(seq, 1, i) \o <<x>> \o SubSeq(seq, i + 1, Len(seq))

\* DocMain with a non-null wrapper in the type of a field, of a field
\* argument, of a list-typed field, of an input field, of a directive argument
NonNullDocuments ==
  { [DocMain EXCEPT ![2].fields[1].type.nonnull = TRUE],
    [DocMain EXCEPT ![2].fields[1].args[1].type.nonnull = TRUE],
    [DocMain EXCEPT ![2].fields[2].type.nonnull = TRUE],
    [DocMain EXCEPT ![5].fields[1].type.nonnull = TRUE],
    [DocMain EXCEPT ![6].args[1].type.nonnull = TRUE] }

\* The documents parsed: the supported ones, each of them with an
\* unsupported definition at each position, and the non-null ones.
ParseInputs ==
  {DocMain, DocBare, DocOther}
    \cup UNION {{InsertAt(d, i, x) :
                    i \in {j \in 0..MaxPosition : j <= Len(d)},
                    x \in UnsupportedDefinitions} : d \in {DocMain, DocOther}}
    \cup NonNullDocuments

InitParse ==
  /\ doc \in ParseInputs
  /\ thisScope = <<>>
  /\ thatScope = <<>>
  /\ subgraph = <<>>
  /\ subgraphs = <<>>
  /\ result = <<>>
  /\ heap = <<>>
  /\ last = Done("init", TRUE, Undef, "", NoType, {}, Undef)
  /\ nops = 0
  /\ applied = {}

\* Schema.parse(doc) / MutableSchema.parse(doc), once
ParseDocument ==
  \E m \in BOOLEAN :
    /\ nops = 0
    /\ Built("parse", BuildSchemaInternal(heap, doc, m), Undef)

NextParse == ParseDocument

SpecParse == InitParse /\ [][NextParse]_vars

\* Whether a type node, an input value, a field or a definition holds an
\* unsupported production.
UnsupportedValues(nodes) == \E i \in 1..Len(nodes) : nodes[i].type.nonnull
UnsupportedFields(nodes) ==
  \E i \in 1..Len(nodes) : nodes[i].type.nonnull \/ UnsupportedValues(nodes[i].args)
Unsupported(d) ==
  \E i \in 1..Len(d) :
    \/ d[i].kind \in {"InterfaceTypeDefinition", "EnumTypeDefinition"} \cup ExtensionKinds
    \/ UnsupportedFields(d[i].fields)
    \/ UnsupportedValues(d[i].args)

\* C13: parsing a document that holds an interface definition, an enum
\* definition, a non-null wrapper or an extension, at whatever position,
\* ends in an error and returns no schema.
C13_UnsupportedFails ==
  (last.op = "parse" /\ Unsupported(doc)) => (~last.ok /\ heap = <<>>)

\* C13's case: a document whose only unsupported production comes last, in
\* the argument of its last definition, has been parsed and refused.
C13_Witness ==
  /\ last.op = "parse"
  /\ ~last.ok
  /\ doc = [DocMain EXCEPT ![6].args[1].type.nonnull = TRUE]

\* ------------------------------------------------------------ Scope chain
\* The planner's Scope: a chain of links, innermost first, each holding a
\* parent type and optional directives; `enclosing` is the rest of the chain
\* and an absent enclosing scope is the empty chain.  Identifiers are one
\* character long, so that a string is the sequence of its characters.

\* An optional value: absent, or holding x.
Undefined == {}
Defined(x) == {x}
Value(o) == CHOOSE x \in o : TRUE

\* The schema of the planning context: objects A, B and C, the interface I
\* implemented by A and B, the union U of B and C.
ObjectTypeNames == {"A", "B", "C"}
AbstractTypes == [I |-> <<"A", "B">>, U |-> <<"B", "C">>]
CompositeTypes == ObjectTypeNames \cup DOMAIN AbstractTypes

\* QueryPlanningContext.getPossibleTypes
GetPossibleTypes(type) ==
  IF type \in DOMAIN AbstractTypes THEN AbstractTypes[type] ELSE <<type>>

\* graphql's isTypeSubTypeOf on composite types
IsTypeSubTypeOf(maybeSubType, superType) ==
  \/ maybeSubType = superType
  \/ /\ superType \in DOMAIN AbstractTypes
     /\ maybeSubType \in SeqToSet(AbstractTypes[superType])

NewScope(parentType, directives, enclosing) ==
  <<[parentType |-> parentType, directives |-> directives]>> \o enclosing

\* Scope.create
Create(parentType) == NewScope(parentType, Undefined, <<>>)

\* Scope.pruneRefinedTypes, dropping every link
PruneRefinedTypesAll(toPrune, refiningType) == <<>>

RECURSIVE PruneRefinedTypes(_, _)
PruneRefinedTypes(toPrune, refiningType) ==
  IF toPrune = <<>> THEN <<>>
  ELSE IF /\ Head(toPrune).directives = Undefined
          /\ IsTypeSubTypeOf(refiningType, Head(toPrune).parentType)
       THEN PruneRefinedTypes(Tail(toPrune), refiningType)
       ELSE NewScope(Head(toPrune).parentType, Head(toPrune).directives,
                     PruneRefinedTypes(Tail(toPrune), refiningType))

\* No type strictly refines a scope
IsStrictlyRefinedByNever(scope, type) == FALSE

\* isStrictlyRefinedBy looking at the innermost link only
IsStrictlyRefinedByHead(scope, type) ==
  ~IsTypeSubTypeOf(Head(scope).parentType, type)

\* Scope.isStrictlyRefinedBy
IsStrictlyRefinedBy(scope, type) ==
  \A i \in 1..Len(scope) : ~IsTypeSubTypeOf(scope[i].parentType, type)

\* Scope.refine, once an empty directive list has become undefined
RefineWith(scope, type, directives) ==
  IF directives # Undefined THEN NewScope(type, directives, scope)
  ELSE IF ~IsStrictlyRefinedBy(scope, type) THEN scope
  ELSE NewScope(type, directives, PruneRefinedTypes(scope, type))

Refine(scope, type, directives) ==
  RefineWith(scope, type,
             IF directives # Undefined /\ Len(Value(directives)) = 0
             THEN Undefined ELSE directives)

\* Scope.computePossibleRuntimeTypes
RECURSIVE FilterIncluded(_, _)
FilterIncluded(possibleTypes, enclosingPossibleTypes) ==
  IF possibleTypes = <<>> THEN <<>>
  ELSE (IF Head(possibleTypes) \in SeqToSet(enclosingPossibleTypes)
        THEN <<Head(possibleTypes)>> ELSE <<>>)
       \o FilterIncluded(Tail(possibleTypes), enclosingPossibleTypes)

RECURSIVE IntersectEnclosing(_, _)
IntersectEnclosing(possibleTypes, nextScope) ==
  IF nextScope = <<>> THEN possibleTypes
  ELSE IntersectEnclosing(
         FilterIncluded(possibleTypes, GetPossibleTypes(Head(nextScope).parentType)),
         Tail(nextScope))

ComputePossibleRuntimeTypes(scope) ==
  IntersectEnclosing(GetPossibleTypes(Head(scope).parentType), Tail(scope))

\* Scope.directiveToString: the directive printed without ignored characters
RECURSIVE PrintArguments(_)
PrintArguments(arguments) ==
  IF arguments = <<>> THEN <<>>
  ELSE <<Head(arguments).name, ":", Head(arguments).value>>
       \o (IF Len(arguments) > 1 THEN <<" ">> ELSE <<>>)
       \o PrintArguments(Tail(arguments))

DirectiveToString(d) ==
  <<"@", d.name>>
    \o (IF d.arguments = <<>> THEN <<>>
        ELSE <<"(">> \o PrintArguments(d.arguments) \o <<")">>)

\* String.charCodeAt, on the characters in use
CharCodeAt ==
  [c \in {" ", "(", ")", "1", ":", "@", "A", "B", "C", "I", "U", "a", "x", "y"} |->
     CASE c = " " -> 32 [] c = "(" -> 40 [] c = ")" -> 41 [] c = "1" -> 49
       [] c = ":" -> 58 [] c = "@" -> 64 [] c = "A" -> 65 [] c = "B" -> 66
       [] c = "C" -> 67 [] c = "I" -> 73 [] c = "U" -> 85 [] c = "a" -> 97
       [] c = "x" -> 120 [] c = "y" -> 121]

\* 32-bit integers, computed on 16-bit halves
Half == 65536
Lo(x) == x % Half
Hi(x) == (x \div Half) % Half
ToInt32(hi, lo) ==
  (IF hi >= Half \div 2 THEN hi - Half ELSE hi) * Half + lo
Carry(hi, lo) == ToInt32((hi + (lo \div Half)) % Half, lo % Half)

\* Math.imul(31, prev) + curr | 0
Imul31Plus(prev, curr) ==
  Carry(Hi(prev) * 31 + Hi(curr), Lo(prev) * 31 + Lo(curr))

\* (a + b) | 0
Plus32(a, b) == Carry(Hi(a) + Hi(b), Lo(a) + Lo(b))

\* Scope.stringHash
RECURSIVE StringHashFrom(_, _, _)
StringHashFrom(s, i, h) ==
  IF i > Len(s) THEN h
  ELSE StringHashFrom(s, i + 1, Imul31Plus(h, CharCodeAt[s[i]]))

StringHash(s) == StringHashFrom(s, 1, 31)

\* Array.reduce of the directive hashes, in a given order
RECURSIVE ReduceHashes(_, _, _)
ReduceHashes(directives, i, prev) ==
  IF i > Len(directives) THEN prev
  ELSE ReduceHashes(directives, i + 1,
                    Imul31Plus(prev, StringHash(DirectiveToString(directives[i]))))

\* Scope.hashCode
HashCode(scope) ==
  IF Head(scope).directives = Undefined
  THEN StringHash(<<Head(scope).parentType>>)
  ELSE Plus32(StringHash(<<Head(scope).parentType>>),
              ReduceHashes(Value(Head(scope).directives), 1, 31))

\* Array.sort on strings: the order of their code units
RECURSIVE StringBefore(_, _)
StringBefore(s, t) ==
  IF s = <<>> THEN t # <<>>
  ELSE IF t = <<>> THEN FALSE
  ELSE IF Head(s) = Head(t) THEN StringBefore(Tail(s), Tail(t))
  ELSE CharCodeAt[Head(s)] < CharCodeAt[Head(t)]

RECURSIVE Insert(_, _)
Insert(sorted, s) ==
  IF sorted = <<>> THEN <<s>>
  ELSE IF StringBefore(s, Head(sorted)) THEN <<s>> \o sorted
  ELSE <<Head(sorted)>> \o Insert(Tail(sorted), s)

RECURSIVE Sort(_)
Sort(strings) ==
  IF strings = <<>> THEN <<>>
  ELSE Insert(Sort(Tail(strings)), Head(strings))

DirectiveStrings(directives) ==
  [i \in 1..Len(directives) |-> DirectiveToString(directives[i])]

\* Directive lists compared one printed directive after the other, unsorted
DirectivesEqualsInOrder(d1, d2) ==
  IF d1 = Undefined THEN d2 = Undefined
  ELSE IF d2 = Undefined THEN FALSE
  ELSE IF Len(Value(d1)) # Len(Value(d2)) THEN FALSE
  ELSE DirectiveStrings(Value(d1)) = DirectiveStrings(Value(d2))

\* Scope.directivesEquals
DirectivesEquals(d1, d2) ==
  IF d1 = Undefined THEN d2 = Undefined
  ELSE IF d2 = Undefined THEN FALSE
  ELSE IF Len(Value(d1)) # Len(Value(d2)) THEN FALSE
  ELSE Sort(DirectiveStrings(Value(d1))) = Sort(DirectiveStrings(Value(d2)))

\* Scope.equals
RECURSIVE Equals(_, _)
Equals(this, that) ==
  IF this = <<>> \/ that = <<>> THEN this = <<>> /\ that = <<>>
  ELSE /\ Head(this).parentType = Head(that).parentType
       /\ DirectivesEquals(Head(this).directives, Head(that).directives)
       /\ Equals(Tail(this), Tail(that))

\* The directives of the fragments refining a scope
FragmentDirective(name, arguments) == [name |-> name, arguments |-> arguments]
DirX == FragmentDirective("x", <<>>)
DirY == FragmentDirective("y", <<[name |-> "a", value |-> "1"]>>)
RefineDirectives ==
  {Undefined, Defined(<<>>), Defined(<<DirX, DirY>>), Defined(<<DirY, DirX>>),
   Defined(<<DirX, DirX>>)}

InitScope ==
  /\ heap = <<>>
  /\ last = Done("create", TRUE, Undef, "", NoType, {}, Undef)
  /\ nops = 0
  /\ applied = {}
  /\ doc = <<>>
  /\ thisScope \in {Create(t) : t \in CompositeTypes}
  /\ thatScope \in {Create(t) : t \in CompositeTypes}
  /\ subgraph = <<>>
  /\ subgraphs = <<>>
  /\ result = <<>>

Refined(name) ==
  /\ nops < MaxOps
  /\ nops' = nops + 1
  /\ last' = Done("refine", TRUE, Undef, name, NoType, {}, Undef)
  /\ UNCHANGED <<heap, applied, doc, subgraph, subgraphs, result>>

\* thisScope = thisScope.refine(type, directives)
RefineThis ==
  \E type \in CompositeTypes, directives \in RefineDirectives :
    /\ thisScope' = Refine(thisScope, type, directives)
    /\ thatScope' = thatScope
    /\ Refined("this")

\* thatScope = thatScope.refine(type, directives)
RefineThat ==
  \E type \in CompositeTypes, directives \in RefineDirectives :
    /\ thatScope' = Refine(thatScope, type, directives)
    /\ thisScope' = thisScope
    /\ Refined("that")

NextScope == RefineThis \/ RefineThat

SpecScope == InitScope /\ [][NextScope]_vars

PossibleRuntimeTypes(scope) == SeqToSet(ComputePossibleRuntimeTypes(scope))

\* C14: refining a scope by any composite type and any directives never adds
\* a possible runtime type: those of the refined scope are among those of the
\* scope refined.
C14_RefineNarrows ==
  [][/\ PossibleRuntimeTypes(thisScope') \subseteq PossibleRuntimeTypes(thisScope)
     /\ PossibleRuntimeTypes(thatScope') \subseteq PossibleRuntimeTypes(thatScope)]_vars

\* C14's case: a scope on I with directives, refined by B without directives;
\* the link on I without directives has been pruned, and B alone remains
\* possible.
C14_Witness ==
  /\ last.op = "refine"
  /\ thisScope = NewScope("B", Undefined,
                          NewScope("I", Defined(<<DirX, DirY>>), <<>>))
  /\ PossibleRuntimeTypes(thisScope) = {"B"}

\* C15: two scopes that equals() holds equal have the same hashCode(), also
\* when their directives are the same in another order.
C15_EqualsSameHashCode ==
  Equals(thisScope, thatScope) => HashCode(thisScope) = HashCode(thatScope)

\* ----------------------------------------------------- Scope identity key
\* The Scope that holds its possible types: a parent type, the possible types
\* sorted by the constructor, and optional directives.

\* Array.sort of the possible types, by their names
SortNames(names) ==
  [i \in 1..Len(names) |-> Sort([j \in 1..Len(names) |-> <<names[j]>>])[i][1]]

\* new Scope(parentType, possibleTypes, directives)
ScopeOf(parentType, possibleTypes, directives) ==
  [parentType |-> parentType, possibleTypes |-> SortNames(possibleTypes),
   directives |-> directives]

\* Array.join
RECURSIVE Join(_, _)
Join(strings, separator) ==
  IF strings = <<>> THEN ""
  ELSE IF Len(strings) = 1 THEN Head(strings)
  ELSE Head(strings) \o separator \o Join(Tail(strings), separator)

\* Scope.directiveIdentityKey, called as the callback of Array.map: `this` is
\* undefined in it, so that reading this.valueIdentityKey for the first
\* argument of the directive throws.
DirectiveIdentityKeyThrows(directive) == directive.arguments # <<>>
DirectiveIdentityKey(directive) == directive.name \o "-"

DirectivesKey(directives) ==
  Join([i \in 1..Len(directives) |-> DirectiveIdentityKey(directives[i])], "-")

\* Scope.identityKey
IdentityKeyThrows(scope) ==
  /\ scope.directives # Undefined
  /\ \E i \in 1..Len(Value(scope.directives)) :
       DirectiveIdentityKeyThrows(Value(scope.directives)[i])

IdentityKey(scope) ==
  scope.parentType \o "-" \o Join(scope.possibleTypes, "-") \o "-"
    \o (IF scope.directives = Undefined THEN ""
        ELSE DirectivesKey(Value(scope.directives)))

\* The scopes constructed
DirB == FragmentDirective("B", <<>>)
KeyPossibleTypes == {<<"A">>, <<"A", "A">>, <<"A", "B">>, <<"B", "A">>}
KeyDirectives == {Undefined, Defined(<<DirB>>), Defined(<<DirY>>)}
KeyScopes ==
  {ScopeOf(p, t, d) : p \in {"I", "U"}, t \in KeyPossibleTypes, d \in KeyDirectives}

InitKey ==
  /\ heap = <<>>
  /\ last = Done("create", TRUE, Undef, "", NoType, {}, "")
  /\ nops = 0
  /\ applied = {}
  /\ doc = <<>>
  /\ thisScope \in KeyScopes
  /\ thatScope \in KeyScopes
  /\ subgraph = <<>>
  /\ subgraphs = <<>>
  /\ result = <<>>

\* thisScope.identityKey() and thatScope.identityKey(): last.name and
\* last.res are the two keys, last.ok says that none of the calls threw.
IdentityKeys ==
  /\ nops = 0
  /\ nops' = 1
  /\ last' = IF IdentityKeyThrows(thisScope) \/ IdentityKeyThrows(thatScope)
             THEN Done("identityKey", FALSE, Undef, "", NoType, {}, "")
             ELSE Done("identityKey", TRUE, Undef, IdentityKey(thisScope),
                       NoType, {}, IdentityKey(thatScope))
  /\ UNCHANGED <<heap, applied, doc, thisScope, thatScope, subgraph, subgraphs, result>>

NextKey == IdentityKeys

SpecKey == InitKey /\ [][NextKey]_vars

DirectiveList(directives) ==
  IF directives = Undefined THEN <<>> ELSE Value(directives)

SameScope(s1, s2) ==
  /\ s1.parentType = s2.parentType
  /\ SeqToSet(s1.possibleTypes) = SeqToSet(s2.possibleTypes)
  /\ DirectiveList(s1.directives) = DirectiveList(s2.directives)

\* C16: the identity keys of two scopes are the same string if and only if
\* the scopes have the same parent type, the same set of possible types and
\* the same directives.
C16_IdentityKeyIdentifies ==
  last.op = "identityKey" =>
    ((last.ok /\ last.name = last.res) <=> SameScope(thisScope, thatScope))

\* ------------------------------------------------- precomputed predicates
\* A subgraph schema as precompute.ts reads it: its federation version and
\* its composite types, each with the interfaces it implements, its applied
\* directives and its fields.  An applied directive holds the field names of
\* its `fields` argument and the extension it belongs to (0: the definition);
\* a field holds the name of its base type and its extension.
Application(name, fields, ext) == [name |-> name, fields |-> fields, ext |-> ext]
FieldOf(name, type, ext, directives) ==
  [name |-> name, type |-> type, ext |-> ext, directives |-> directives]
CompositeOf(kind, name, interfaces, directives, fields) ==
  [kind |-> kind, name |-> name, interfaces |-> interfaces,
   directives |-> directives, fields |-> fields]

\* Element.appliedDirectivesOf / Element.hasAppliedDirective
AppliedDirectivesOf(element, name) ==
  SelectSeq(element.directives, LAMBDA d : d.name = name)
HasAppliedDirective(element, name) == AppliedDirectivesOf(element, name) # <<>>

\* Schema.types(kind)
TypesOfKind(s, kind) == {t \in SeqToSet(s.types) : t.kind = kind}
FieldCoordinate(type, field) == type.name \o "." \o field.name
FieldsNamed(type, name) == {f \in SeqToSet(type.fields) : f.name = name}

\* collectTargetFields with includeInterfaceFieldsImplementations: the
\* fields of parentType that the `fields` argument of the directive selects
\* and, parentType being an interface, the same fields of the object types
\* that implement it.  A target is a pair of a type and a field of it.
CollectTargetFields(s, parentType, directive) ==
  {<<t, f>> : t \in {parentType}, f \in UNION {FieldsNamed(parentType, n) : n \in SeqToSet(directive.fields)}}
    \cup UNION {{<<t, f>> : f \in UNION {FieldsNamed(t, n) : n \in SeqToSet(directive.fields)}} :
                  t \in {o \in TypesOfKind(s, "ObjectType") :
                           /\ parentType.kind = "InterfaceType"
                           /\ parentType.name \in o.interfaces}}

TargetCoordinates(targets) == {FieldCoordinate(x[1], x[2]) : x \in targets}

\* FederationMetadata.isFieldExternal
IsFieldExternal(field) == HasAppliedDirective(field, "external")

\* addKeyFields
AddKeyFields(s, type) ==
  UNION {TargetCoordinates(CollectTargetFields(s, type, key)) :
           key \in SeqToSet(AppliedDirectivesOf(type, "key"))}

\* fieldIsShareable, whatever the extension of the application on the type
FieldIsShareableAnyExtension(type, field, directive) ==
  /\ directive # Undefined
  /\ \/ HasAppliedDirective(field, Value(directive))
     \/ HasAppliedDirective(type, Value(directive))

\* fieldIsShareable
FieldIsShareable(type, field, directive) ==
  /\ directive # Undefined
  /\ \/ HasAppliedDirective(field, Value(directive))
     \/ \E d \in SeqToSet(AppliedDirectivesOf(type, Value(directive))) :
          field.ext = d.ext

\* The external targets of the @provides applications of a field
ProvidedFields(s, field) ==
  UNION {TargetCoordinates({x \in CollectTargetFields(s, t, provides) : IsFieldExternal(x[2])}) :
           t \in {c \in SeqToSet(s.types) : c.name = field.type},
           provides \in SeqToSet(AppliedDirectivesOf(field, "provides"))}

\* computeAllFieldsWithDirective: the coordinates its predicate holds of
ComputeAllFieldsWithDirective(s, directive, includeOtherFieldsOnType) ==
  UNION {AddKeyFields(s, type)
           \cup {FieldCoordinate(type, field) :
                   field \in {f \in SeqToSet(type.fields) :
                                /\ FieldIsShareable(type, f, directive)
                                /\ includeOtherFieldsOnType}}
           \cup UNION {ProvidedFields(s, field) : field \in SeqToSet(type.fields)} :
         type \in TypesOfKind(s, "ObjectType")}
    \cup UNION {AddKeyFields(s, type) : type \in TypesOfKind(s, "InterfaceType")}

\* computeShareables / computeKeys
ComputeShareables(s) ==
  ComputeAllFieldsWithDirective(s, IF s.fed2 THEN Defined("shareable") ELSE Undefined, TRUE)
ComputeKeys(s) ==
  ComputeAllFieldsWithDirective(s, IF s.fed2 THEN Defined("key") ELSE Undefined, FALSE)

\* The subgraphs: an entity T implementing I, with a field `a` that may be
\* @shareable, @external and of an extension, and a type P whose field t may
\* provide T.a.
Applications(names, fields, ext) ==
  IF names = <<>> THEN <<>>
  ELSE <<Application(Head(names), fields, ext)>>
SubgraphOf(fed2, keyI, onT, extA, onA, onP) ==
  [fed2 |-> fed2,
   types |->
     << CompositeOf("InterfaceType", "I", {}, keyI,
                    <<FieldOf("id", "ID", 0, <<>>)>>),
        CompositeOf("ObjectType", "T", {"I"}, onT,
                    <<FieldOf("id", "ID", 0, <<>>), FieldOf("a", "Int", extA, onA)>>),
        CompositeOf("ObjectType", "P", {}, <<>>,
                    <<FieldOf("t", "T", 0, onP)>>) >>]

KeyId == Application("key", <<"id">>, 0)
TypeApplications ==
  {<<>>, <<KeyId>>} \cup
  {d \o <<Application("shareable", <<>>, e)>> : d \in {<<>>, <<KeyId>>}, e \in {0, 1}}
FieldApplications ==
  {<<>>, <<Application("shareable", <<>>, 0)>>, <<Application("external", <<>>, 0)>>,
   <<Application("shareable", <<>>, 0), Application("external", <<>>, 0)>>}
Shares(directives) == \E i \in 1..Len(directives) : directives[i].name = "shareable"
AllSubgraphs ==
  {SubgraphOf(fed2, keyI, onT, extA, onA, onP) :
     fed2 \in BOOLEAN, keyI \in {<<>>, <<KeyId>>}, onT \in TypeApplications,
     extA \in {0, 1}, onA \in FieldApplications,
     onP \in {<<>>, <<Application("provides", <<"a">>, 0)>>}}

\* @shareable exists in federation 2 subgraphs only
Subgraphs ==
  {s \in AllSubgraphs :
     s.fed2 \/ (~Shares(s.types[2].directives) /\ ~Shares(s.types[2].fields[2].directives))}

InitPrecompute ==
  /\ heap = <<>>
  /\ last = Done("subgraph", TRUE, Undef, "", NoType, {}, Undef)
  /\ nops = 0
  /\ applied = {}
  /\ doc = <<>>
  /\ thisScope = <<>>
  /\ thatScope = <<>>
  /\ subgraph \in Subgraphs
  /\ subgraphs = <<>>
  /\ result = <<>>

Computed(op, fields) ==
  /\ nops' = 1
  /\ last' = Done(op, TRUE, Undef, "", NoType, fields, Undef)
  /\ UNCHANGED <<heap, applied, doc, thisScope, thatScope, subgraph, subgraphs, result>>

\* computeShareables(subgraph): last.ret holds the coordinates of the
\* fields the predicate returned holds of
ComputeShareablesOp ==
  /\ nops = 0
  /\ Computed("computeShareables", ComputeShareables(subgraph))

\* computeKeys(subgraph)
ComputeKeysOp ==
  /\ nops = 0
  /\ Computed("computeKeys", ComputeKeys(subgraph))

NextPrecompute == ComputeShareablesOp \/ ComputeKeysOp

SpecPrecompute == InitPrecompute /\ [][NextPrecompute]_vars

\* A field is a key field: a @key of its parent type, or of an interface its
\* parent type implements, selects it.
Keyed(type, name) ==
  \E i \in 1..Len(type.directives) :
    /\ type.directives[i].name = "key"
    /\ name \in SeqToSet(type.directives[i].fields)
IsKeyField(s, type, field) ==
  \/ Keyed(type, field.name)
  \/ \E i \in 1..Len(s.types) :
       /\ s.types[i].kind = "InterfaceType"
       /\ s.types[i].name \in type.interfaces
       /\ Keyed(s.types[i], field.name)

\* A field is provided: a @provides on a field whose type is its parent type
\* selects it.
IsProvided(s, type, field) ==
  \E i \in 1..Len(s.types) : \E j \in 1..Len(s.types[i].fields) :
    /\ s.types[i].fields[j].type = type.name
    /\ \E k \in 1..Len(s.types[i].fields[j].directives) :
         /\ s.types[i].fields[j].directives[k].name = "provides"
         /\ field.name \in SeqToSet(s.types[i].fields[j].directives[k].fields)

Marked(element, name) ==
  \E i \in 1..Len(element.directives) : element.directives[i].name = name

SharedByType(type, field) ==
  \E i \in 1..Len(type.directives) :
    /\ type.directives[i].name = "shareable"
    /\ type.directives[i].ext = field.ext

\* C17: the predicate of computeKeys holds of a field if and only if the
\* field is a key field of its parent type; it does not hold of a field that
\* no @key selects and that a @provides selects.
C17_KeysAreKeyFields ==
  last.op = "computeKeys" =>
    \A i \in 1..Len(subgraph.types) : \A j \in 1..Len(subgraph.types[i].fields) :
      FieldCoordinate(subgraph.types[i], subgraph.types[i].fields[j]) \in last.ret
        <=> IsKeyField(subgraph, subgraph.types[i], subgraph.types[i].fields[j])

\* C18: the predicate of computeShareables holds of a field exactly when the
\* field is marked @shareable, or its type is by an application of the
\* extension of the field, or the field is a key field, or the field is
\* marked @external and selected by a @provides.
C18_ShareableExactly ==
  last.op = "computeShareables" =>
    \A i \in 1..Len(subgraph.types) : \A j \in 1..Len(subgraph.types[i].fields) :
      FieldCoordinate(subgraph.types[i], subgraph.types[i].fields[j]) \in last.ret
        <=> \/ Marked(subgraph.types[i].fields[j], "shareable")
            \/ SharedByType(subgraph.types[i], subgraph.types[i].fields[j])
            \/ IsKeyField(subgraph, subgraph.types[i], subgraph.types[i].fields[j])
            \/ /\ Marked(subgraph.types[i].fields[j], "external")
               /\ IsProvided(subgraph, subgraph.types[i], subgraph.types[i].fields[j])

\* C18's case: @shareable on T by an application of the definition, the
\* field T.a of an extension, neither external nor key: T.id is shareable
\* and T.a is not.
C18_Witness ==
  /\ last.op = "computeShareables"
  /\ subgraph = SubgraphOf(TRUE, <<>>, <<Application("shareable", <<>>, 0)>>, 1, <<>>,
                           <<Application("provides", <<"a">>, 0)>>)
  /\ last.ret = {"T.id"}

\* ------------------------------------------------------------ composition
\* Composition of subgraphs with @override, as the composition tests use it.
\* A subgraph is a name and its object types; a type holds its @key
\* selections and its fields; a field holds the subgraph its @override names
\* ("" without @override) and whether it is @external.  A key selection is a
\* sequence of fields, each with the fields selected under it.  A coordinate
\* is a pair of a type name and a field name.
FieldDef(name, type, override, external) ==
  [name |-> name, type |-> type, override |-> override, external |-> external]
TypeDef(name, keys, fields) == [name |-> name, keys |-> keys, fields |-> fields]
Selected(name, sub) == [name |-> name, sub |-> sub]

TypesIn(sg) == SeqToSet(sg.types)
FieldsAt(sg, typeName) ==
  UNION {SeqToSet(t.fields) : t \in {x \in TypesIn(sg) : x.name = typeName}}
FieldAt(sg, typeName, fieldName) ==
  {f \in FieldsAt(sg, typeName) : f.name = fieldName}

\* Every subgraph has the query root type
DefinesType(sg, typeName) ==
  typeName = "Query" \/ \E t \in TypesIn(sg) : t.name = typeName

\* The coordinates a @key of a subgraph selects, nested selections included
KeyCoordinatesOf(sg, typeName, key) ==
  {<<typeName, e.name>> : e \in SeqToSet(key)}
    \cup UNION {UNION {{<<f.type, m>> : m \in SeqToSet(e.sub)} :
                         f \in FieldAt(sg, typeName, e.name)} : e \in SeqToSet(key)}
KeyCoordinates(sg) ==
  UNION {UNION {KeyCoordinatesOf(sg, t.name, k) : k \in SeqToSet(t.keys)} :
           t \in TypesIn(sg)}

\* The fields that bear @override: triples of a subgraph, a type name and a
\* field
OverrideSites(sgs) ==
  UNION {UNION {{<<sg, t.name, f>> : f \in {x \in SeqToSet(t.fields) : x.override # ""}} :
                  t \in TypesIn(sg)} : sg \in SeqToSet(sgs)}

\* The counterparts of an overriding field in the subgraph it names
SourceFields(sgs, site) ==
  UNION {FieldAt(sg, site[2], site[3].name) :
           sg \in {x \in SeqToSet(sgs) : x.name = site[3].override}}

\* An error names its field, the subgraph of the @override and, for a
\* collision, the subgraph whose field is @external
OverrideError(code, site, external) ==
  [code |-> code, coordinate |-> <<site[2], site[3].name>>, subgraph |-> site[1].name,
   external |-> external]

SourceHasOverride(sgs, site) ==
  IF \E g \in SourceFields(sgs, site) : g.override # ""
  THEN <<OverrideError("OVERRIDE_SOURCE_HAS_OVERRIDE", site, "")>>
  ELSE <<>>

CollisionWithSource(sgs, site) ==
  IF \E g \in SourceFields(sgs, site) : g.external
  THEN <<OverrideError("OVERRIDE_COLLISION_WITH_ANOTHER_DIRECTIVE", site, site[3].override)>>
  ELSE <<>>

CollisionWithSelf(site) ==
  IF site[3].external
  THEN <<OverrideError("OVERRIDE_COLLISION_WITH_ANOTHER_DIRECTIVE", site, site[1].name)>>
  ELSE <<>>

\* An @override of the subgraph of the field itself raises no error
SiteErrorsFromSelfAllowed(sgs, site) ==
  SourceHasOverride(sgs, site) \o CollisionWithSource(sgs, site) \o CollisionWithSelf(site)

\* An @override of an @external field, or on one, raises no error
SiteErrorsExternalAllowed(sgs, site) ==
  IF site[3].override = site[1].name
  THEN <<OverrideError("OVERRIDE_FROM_SELF_ERROR", site, "")>>
  ELSE SourceHasOverride(sgs, site)

\* The errors of a field that bears @override
SiteErrors(sgs, site) ==
  IF site[3].override = site[1].name
  THEN <<OverrideError("OVERRIDE_FROM_SELF_ERROR", site, "")>>
  ELSE SourceHasOverride(sgs, site) \o CollisionWithSource(sgs, site)
         \o CollisionWithSelf(site)

OverrideErrors(sgs) ==
  UNION {SeqToSet(SiteErrors(sgs, site)) : site \in OverrideSites(sgs)}

ValidOverride(sgs, site) ==
  /\ site[3].override # site[1].name
  /\ ~site[3].external
  /\ \A g \in SourceFields(sgs, site) : g.override = "" /\ ~g.external

\* Whether a valid @override of another subgraph names this field of sg
Overridden(sgs, sg, typeName, fieldName) ==
  \E site \in OverrideSites(sgs) :
    /\ site[3].override = sg.name
    /\ site[2] = typeName
    /\ site[3].name = fieldName
    /\ ValidOverride(sgs, site)

\* An overridden field is kept, as @external, whatever its use
OverriddenIsKeptAlways(sg, typeName, fieldName) == TRUE

\* An overridden field is removed, whatever its use
OverriddenIsKeptNever(sg, typeName, fieldName) == FALSE

\* An overridden field is kept, as @external, when a @key of its subgraph
\* selects it
OverriddenIsKept(sg, typeName, fieldName) ==
  <<typeName, fieldName>> \in KeyCoordinates(sg)

\* Override rewriting of the fields of a type of a subgraph
KeptFields(sgs, sg, typeName, fields) ==
  SelectSeq(fields, LAMBDA f : \/ ~Overridden(sgs, sg, typeName, f.name)
                               \/ OverriddenIsKept(sg, typeName, f.name))

MarkedExternal(sgs, sg, typeName, kept) ==
  [i \in 1..Len(kept) |->
     [kept[i] EXCEPT !.external = @ \/ Overridden(sgs, sg, typeName, kept[i].name)]]

RewriteFields(sgs, sg, typeName, fields) ==
  MarkedExternal(sgs, sg, typeName, KeptFields(sgs, sg, typeName, fields))

RewriteSubgraph(sgs, sg) ==
  [sg EXCEPT !.types =
     [j \in 1..Len(sg.types) |->
        [sg.types[j] EXCEPT !.fields = RewriteFields(sgs, sg, sg.types[j].name, @)]]]

\* The subgraphs are composed as they are
Unrewritten(sgs) == sgs

Rewritten(sgs) == [i \in 1..Len(sgs) |-> RewriteSubgraph(sgs, sgs[i])]

AllCoordinates(sgs) ==
  UNION {UNION {{<<t.name, f.name>> : f \in SeqToSet(t.fields)} : t \in TypesIn(sg)} :
           sg \in SeqToSet(sgs)}

\* The subgraphs that resolve a field
Resolvers(sgs, c) ==
  {sg.name : sg \in {x \in SeqToSet(sgs) : \E f \in FieldAt(x, c[1], c[2]) : ~f.external}}

\* A field several subgraphs resolve, that none of them may share: key fields
\* are the shareable ones here
SharingErrors(sgs) ==
  {[code |-> "INVALID_FIELD_SHARING", coordinate |-> c, subgraph |-> "", external |-> ""] :
     c \in {x \in AllCoordinates(sgs) :
              /\ Cardinality(Resolvers(sgs, x)) > 1
              /\ \A sg \in SeqToSet(sgs) :
                   sg.name \in Resolvers(sgs, x) => x \notin KeyCoordinates(sg)}}

\* The applications of @join__field on a field of the supergraph: none when
\* every subgraph that has the type has the field and none holds it external
NeedsJoinField(sgs, c) ==
  \E sg \in SeqToSet(sgs) :
    /\ DefinesType(sg, c[1])
    /\ \/ FieldAt(sg, c[1], c[2]) = {}
       \/ \E f \in FieldAt(sg, c[1], c[2]) : f.external

JoinFields(sgs, c) ==
  IF ~NeedsJoinField(sgs, c) THEN {}
  ELSE UNION {{[graph |-> sg.name, external |-> f.external] :
                 f \in FieldAt(sg, c[1], c[2])} : sg \in SeqToSet(sgs)}

\* Satisfiability: from a type reached in some subgraphs, the subgraphs that
\* a @key of theirs lets reach, the key being resolved where one comes from
ResolvesKey(sgs, from, typeName, key) ==
  \E sg \in SeqToSet(sgs) :
    /\ sg.name \in from
    /\ \A e \in SeqToSet(key) :
         \E f \in FieldAt(sg, typeName, e.name) :
           /\ ~f.external
           /\ \A m \in SeqToSet(e.sub) : \E g \in FieldAt(sg, f.type, m) : ~g.external

Jumps(sgs, from, typeName) ==
  {sg.name : sg \in {x \in SeqToSet(sgs) :
                       \E t \in TypesIn(x) :
                         /\ t.name = typeName
                         /\ \E k \in SeqToSet(t.keys) : ResolvesKey(sgs, from, typeName, k)}}

RECURSIVE Reachable(_, _, _)
ReachableNext(sgs, from, typeName, next) ==
  IF next \subseteq from THEN from ELSE Reachable(sgs, from \cup next, typeName)
Reachable(sgs, from, typeName) ==
  IF typeName = "Query" THEN {sg.name : sg \in SeqToSet(sgs)}
  ELSE ReachableNext(sgs, from, typeName, Jumps(sgs, from, typeName))

FieldTypes(sgs, c) ==
  UNION {{f.type : f \in FieldAt(sg, c[1], c[2])} : sg \in SeqToSet(sgs)}

RECURSIVE Satisfiable(_, _, _, _)
SatisfiableField(sgs, resolving, types, visited) ==
  /\ resolving # {}
  /\ \A t \in types :
       (\E sg \in SeqToSet(sgs) : \E x \in TypesIn(sg) : x.name = t)
         => (<<t, resolving>> \in visited
               \/ Satisfiable(sgs, resolving, t, visited \cup {<<t, resolving>>}))
Satisfiable(sgs, from, typeName, visited) ==
  \A c \in {x \in AllCoordinates(sgs) : x[1] = typeName} :
    SatisfiableField(sgs, Reachable(sgs, from, typeName) \cap Resolvers(sgs, c),
                     FieldTypes(sgs, c), visited)

\* The fields of the subgraphs in the order of their first declaration
RECURSIVE Concat(_)
Concat(seqs) == IF seqs = <<>> THEN <<>> ELSE Head(seqs) \o Concat(Tail(seqs))

RECURSIVE Distinct(_)
Distinct(s) ==
  IF s = <<>> THEN <<>>
  ELSE <<Head(s)>> \o Distinct(SelectSeq(Tail(s), LAMBDA x : x # Head(s)))

CoordinatesOfType(t) == [k \in 1..Len(t.fields) |-> <<t.name, t.fields[k].name>>]
CoordinatesOfSubgraph(sg) ==
  Concat([j \in 1..Len(sg.types) |-> CoordinatesOfType(sg.types[j])])
CoordinateList(sgs) ==
  Distinct(Concat([i \in 1..Len(sgs) |-> CoordinatesOfSubgraph(sgs[i])]))

\* The errors of a field: those of its @override in each subgraph, in the
\* order of the subgraphs, then that of its sharing
SiteErrorsOf(sgs, sites) ==
  IF sites = {} THEN <<>> ELSE SiteErrors(sgs, CHOOSE site \in sites : TRUE)

SitesErrorsAt(sgs, c) ==
  Concat([i \in 1..Len(sgs) |->
            SiteErrorsOf(sgs, {site \in OverrideSites(sgs) :
                                 /\ site[1] = sgs[i]
                                 /\ site[2] = c[1]
                                 /\ site[3].name = c[2]})])

SharingErrorsAt(sgs, c) ==
  IF \E e \in SharingErrors(Rewritten(sgs)) : e.coordinate = c
  THEN <<[code |-> "INVALID_FIELD_SHARING", coordinate |-> c, subgraph |-> "",
          external |-> ""]>>
  ELSE <<>>

\* The sharing of a field is reported before its overrides
FieldErrorsSharingFirst(sgs, c) == SharingErrorsAt(sgs, c) \o SitesErrorsAt(sgs, c)

FieldErrors(sgs, c) == SitesErrorsAt(sgs, c) \o SharingErrorsAt(sgs, c)

ErrorList(sgs, coordinates) ==
  Concat([n \in 1..Len(coordinates) |-> FieldErrors(sgs, coordinates[n])])

\* composeServices: the errors, or the supergraph as the @join__field
\* applications and the type of each field, and the fields of the API schema
\* with their types
Merged(sgs) ==
  IF Satisfiable(sgs, {}, "Query", {})
  THEN [ok |-> TRUE, errors |-> <<>>,
        joinFields |-> [c \in AllCoordinates(sgs) |-> JoinFields(sgs, c)],
        fieldTypes |-> [c \in AllCoordinates(sgs) |-> FieldTypes(sgs, c)],
        api |-> AllCoordinates(sgs),
        apiTypes |-> [c \in AllCoordinates(sgs) |-> FieldTypes(sgs, c)]]
  ELSE [ok |-> FALSE,
        errors |-> <<[code |-> "SATISFIABILITY_ERROR", coordinate |-> <<>>,
                      subgraph |-> "", external |-> ""]>>,
        joinFields |-> <<>>, fieldTypes |-> <<>>, api |-> {}, apiTypes |-> <<>>]

Validated(sgs, errors) ==
  IF errors # <<>>
  THEN [ok |-> FALSE, errors |-> errors, joinFields |-> <<>>, fieldTypes |-> <<>>,
        api |-> {}, apiTypes |-> <<>>]
  ELSE Merged(sgs)

ComposeServices(sgs) ==
  Validated(Rewritten(sgs), ErrorList(sgs, CoordinateList(sgs)))

\* The subgraphs composed.  Subgraph1 has the root field t: T and may
\* override k and a of T; Subgraph2 holds k and b, may hold a (plain,
\* @external, or overriding in turn), and may have a root field otherT: T.
KeyK == <<Selected("k", <<>>)>>
KeyEK == <<Selected("e", <<"k">>)>>
Froms == {"", "Subgraph1", "Subgraph2"}

Subgraph1(ovK, ovA) ==
  [name |-> "Subgraph1",
   types |-> << TypeDef("Query", <<>>, <<FieldDef("t", "T", "", FALSE)>>),
                TypeDef("T", <<KeyK>>, <<FieldDef("k", "ID", ovK, FALSE),
                                         FieldDef("a", "Int", ovA, FALSE)>>) >>]

Roots(root) ==
  IF root THEN <<TypeDef("Query", <<>>, <<FieldDef("otherT", "T", "", FALSE)>>)>>
  ELSE <<>>

FieldA(variant) ==
  CASE variant = "absent" -> <<>>
    [] variant = "plain" -> <<FieldDef("a", "Int", "", FALSE)>>
    [] variant = "external" -> <<FieldDef("a", "Int", "", TRUE)>>
    [] variant = "override" -> <<FieldDef("a", "Int", "Subgraph1", FALSE)>>
    [] variant = "string" -> <<FieldDef("a", "String", "", FALSE)>>

Subgraph2(root, variant) ==
  [name |-> "Subgraph2",
   types |-> Roots(root) \o
             << TypeDef("T", <<KeyK>>, <<FieldDef("k", "ID", "", FALSE)>>
                                       \o FieldA(variant)
                                       \o <<FieldDef("b", "Int", "", FALSE)>>) >>]

\* The same with the key of T nested in E, whose k Subgraph1 may override
Subgraph1Nested(ovK) ==
  [name |-> "Subgraph1",
   types |-> << TypeDef("Query", <<>>, <<FieldDef("t", "T", "", FALSE)>>),
                TypeDef("T", <<KeyEK>>, <<FieldDef("e", "E", "", FALSE)>>),
                TypeDef("E", <<>>, <<FieldDef("k", "ID", ovK, FALSE),
                                     FieldDef("a", "Int", "", FALSE)>>) >>]

Subgraph2Nested(root) ==
  [name |-> "Subgraph2",
   types |-> Roots(root) \o
             << TypeDef("T", <<KeyEK>>, <<FieldDef("e", "E", "", FALSE),
                                          FieldDef("x", "Int", "", FALSE)>>),
                TypeDef("E", <<>>, <<FieldDef("k", "ID", "", FALSE),
                                     FieldDef("b", "Int", "", FALSE)>>) >>]

\* Subgraph1 with its field a @external
Subgraph1ExternalA(ovA) ==
  [name |-> "Subgraph1",
   types |-> << TypeDef("Query", <<>>, <<FieldDef("t", "T", "", FALSE)>>),
                TypeDef("T", <<KeyK>>, <<FieldDef("k", "ID", "", FALSE),
                                         FieldDef("a", "Int", ovA, TRUE)>>) >>]

Variants == {"absent", "plain", "external", "override", "string"}

ComposeInputs ==
  {<<Subgraph1(ovK, ovA), Subgraph2(root, variant)>> :
     ovK \in Froms, ovA \in Froms, root \in BOOLEAN, variant \in Variants}
  \cup {<<Subgraph1ExternalA(ovA), Subgraph2(FALSE, variant)>> :
          ovA \in Froms, variant \in Variants}
  \cup {<<Subgraph1Nested(ovK), Subgraph2Nested(root)>> : ovK \in Froms, root \in BOOLEAN}

NoResult ==
  [ok |-> FALSE, errors |-> <<>>, joinFields |-> <<>>, fieldTypes |-> <<>>, api |-> {},
   apiTypes |-> <<>>]

InitCompose ==
  /\ heap = <<>>
  /\ last = Done("subgraphs", TRUE, Undef, "", NoType, {}, Undef)
  /\ nops = 0
  /\ applied = {}
  /\ doc = <<>>
  /\ thisScope = <<>>
  /\ thatScope = <<>>
  /\ subgraph = <<>>
  /\ subgraphs \in ComposeInputs
  /\ result = NoResult

\* result = composeAsFed2Subgraphs(subgraphs)
Compose ==
  /\ nops = 0
  /\ nops' = 1
  /\ result' = ComposeServices(subgraphs)
  /\ last' = Done("compose", TRUE, Undef, "", NoType, {}, Undef)
  /\ UNCHANGED <<heap, applied, doc, thisScope, thatScope, subgraph, subgraphs>>

NextCompose == Compose

SpecCompose == InitCompose /\ [][NextCompose]_vars

\* The valid overrides of a composition whose overridden field exists
ValidSites(sgs) ==
  {site \in OverrideSites(sgs) :
     ValidOverride(sgs, site) /\ SourceFields(sgs, site) # {}}

KeySite(sgs, site) ==
  \E sg \in SeqToSet(sgs) : <<site[2], site[3].name>> \in KeyCoordinates(sg)

SourceSubgraph(sgs, site) ==
  CHOOSE sg \in SeqToSet(sgs) : sg.name = site[3].override

Joined(graph, external) == [graph |-> graph, external |-> external]

\* The subgraphs raise no override error and no sharing error
OtherwiseValid(sgs) ==
  OverrideErrors(sgs) = {} /\ SharingErrors(Rewritten(sgs)) = {}

\* The supergraph field of an override is joined to the overriding subgraph
\* and not to the overridden one
OverrideJoined(site) ==
  /\ Joined(site[1].name, FALSE) \in result.joinFields[<<site[2], site[3].name>>]
  /\ \A j \in result.joinFields[<<site[2], site[3].name>>] : j.graph # site[3].override

KeyOverrideJoined(site) ==
  /\ Joined(site[1].name, FALSE) \in result.joinFields[<<site[2], site[3].name>>]
  /\ Joined(site[3].override, TRUE) \in result.joinFields[<<site[2], site[3].name>>]

RootReaches(sgs, site) ==
  \E f \in FieldsAt(SourceSubgraph(sgs, site), "Query") : f.type = site[2]

SelfSites(sgs) == {site \in OverrideSites(sgs) : site[3].override = site[1].name}

\* The errors of the result about the field of a subgraph, in their order
ErrorsOf(site) ==
  SelectSeq(result.errors, LAMBDA e : /\ e.coordinate = <<site[2], site[3].name>>
                                      /\ e.subgraph = site[1].name)

\* The errors of the result about a field, in their order
ErrorsAt(c) == SelectSeq(result.errors, LAMBDA e : e.coordinate = c)

NoSupergraph == ~result.ok /\ result.joinFields = <<>> /\ result.api = {}

\* C21: a field T.a of subgraph S with @override(from: S) makes composition
\* fail without a supergraph, with exactly one error about it, of code
\* OVERRIDE_FROM_SELF_ERROR, naming S and T.a; it is the only error of the
\* composition when no other field bears @override and no field is shared.
C21_OverrideFromSelf ==
  last.op = "compose" =>
    \A site \in SelfSites(subgraphs) :
      /\ NoSupergraph
      /\ ErrorsOf(site) = <<[code |-> "OVERRIDE_FROM_SELF_ERROR",
                             coordinate |-> <<site[2], site[3].name>>,
                             subgraph |-> site[1].name, external |-> ""]>>
      /\ (OverrideSites(subgraphs) = {site} /\ SharingErrors(subgraphs) = {})
           => result.errors = ErrorsOf(site)

\* C21's case: T.a of Subgraph1 has @override(from: "Subgraph1") and
\* Subgraph2 has k and b only; composition has failed with one error.
C21_Witness ==
  /\ last.op = "compose"
  /\ subgraphs = <<Subgraph1("", "Subgraph1"), Subgraph2(FALSE, "absent")>>
  /\ NoSupergraph
  /\ Len(result.errors) = 1
  /\ result.errors[1].code = "OVERRIDE_FROM_SELF_ERROR"
  /\ result.errors[1].subgraph = "Subgraph1"
  /\ result.errors[1].coordinate = <<"T", "a">>

\* The pairs of fields that override each other, in the order of their
\* subgraphs
MutualSites(sgs) ==
  {p \in OverrideSites(sgs) \X OverrideSites(sgs) :
     /\ p[1][2] = p[2][2]
     /\ p[1][3].name = p[2][3].name
     /\ p[1][3].override = p[2][1].name
     /\ p[2][3].override = p[1][1].name
     /\ \E i, j \in 1..Len(sgs) : i < j /\ sgs[i] = p[1][1] /\ sgs[j] = p[2][1]}

SourceHasOverrideError(site) ==
  [code |-> "OVERRIDE_SOURCE_HAS_OVERRIDE", coordinate |-> <<site[2], site[3].name>>,
   subgraph |-> site[1].name, external |-> ""]

CollisionError(site, external) ==
  [code |-> "OVERRIDE_COLLISION_WITH_ANOTHER_DIRECTIVE",
   coordinate |-> <<site[2], site[3].name>>, subgraph |-> site[1].name,
   external |-> external]

\* The fields that bear an @override of another subgraph
OtherSites(sgs) == {site \in OverrideSites(sgs) : site[3].override # site[1].name}

\* C23: for a field T.a of S with @override(from: S'), S' another subgraph:
\* when T.a of S' is @external, without @override, and T.a of S is not, the
\* error about T.a is a single OVERRIDE_COLLISION_WITH_ANOTHER_DIRECTIVE that
\* names S' as the @external side, the only error when no other field bears
\* @override; when T.a of S is @external, the error list contains an
\* OVERRIDE_COLLISION_WITH_ANOTHER_DIRECTIVE that names S as the @external side.
C23_OverrideExternalCollision ==
  last.op = "compose" =>
    \A site \in OtherSites(subgraphs) :
      /\ (/\ ~site[3].external
          /\ SourceFields(subgraphs, site) # {}
          /\ \A g \in SourceFields(subgraphs, site) : g.external /\ g.override = "")
           => /\ NoSupergraph
              /\ ErrorsAt(<<site[2], site[3].name>>)
                   = <<CollisionError(site, site[3].override)>>
              /\ OverrideSites(subgraphs) = {site}
                   => result.errors = <<CollisionError(site, site[3].override)>>
      /\ site[3].external
           => /\ NoSupergraph
              /\ \E n \in 1..Len(result.errors) :
                   result.errors[n] = CollisionError(site, site[1].name)

\* C23's case: T.a of Subgraph1 overrides Subgraph2, whose T.a is @external;
\* composition has failed with the one collision error, naming Subgraph2.
C23_Witness ==
  /\ last.op = "compose"
  /\ subgraphs = <<Subgraph1("", "Subgraph2"), Subgraph2(FALSE, "external")>>
  /\ Len(result.errors) = 1
  /\ result.errors[1].code = "OVERRIDE_COLLISION_WITH_ANOTHER_DIRECTIVE"
  /\ result.errors[1].subgraph = "Subgraph1"
  /\ result.errors[1].external = "Subgraph2"

\* The valid overrides of a field declared with another type in the
\* overridden subgraph
RetypingSites(sgs) ==
  {site \in ValidSites(sgs) : \E g \in SourceFields(sgs, site) : g.type # site[3].type}

\* C24: with a valid @override of a field T.a whose overridden declaration
\* has another type, composition succeeds when no other field bears
\* @override, and whenever it succeeds the supergraph and the API schema give
\* T.a the type of the overriding subgraph.
C24_OverrideChangesType ==
  last.op = "compose" =>
    \A site \in RetypingSites(subgraphs) :
      /\ OverrideSites(subgraphs) = {site} => result.ok
      /\ result.ok =>
           /\ result.fieldTypes[<<site[2], site[3].name>>] = {site[3].type}
           /\ <<site[2], site[3].name>> \in result.api
           /\ result.apiTypes[<<site[2], site[3].name>>] = {site[3].type}

\* C24's case: T.a: Int of Subgraph1 overrides T.a: String of Subgraph2;
\* composition has succeeded and T.a is an Int, joined to Subgraph1.
C24_Witness ==
  /\ last.op = "compose"
  /\ subgraphs = <<Subgraph1("", "Subgraph2"), Subgraph2(FALSE, "string")>>
  /\ result.ok
  /\ result.fieldTypes[<<"T", "a">>] = {"Int"}
  /\ result.apiTypes[<<"T", "a">>] = {"Int"}
  /\ result.joinFields[<<"T", "a">>] = {Joined("Subgraph1", FALSE)}

\* ------------------------------------------------------- field collection
\* QueryPlanningContext.collectFields and getKeyFields, on the schema of the
\* Scope chain.  A selection is a field, an inline fragment or a fragment
\* spread; a field set is a sequence of entries, each the scope, the name of
\* the field node and the field definition as a pair of a type and a name.
MaxSelections == 2

FieldSelection(name) == [kind |-> "Field", name |-> name]
InlineFragment(typeCondition, directives, selections) ==
  [kind |-> "InlineFragment", typeCondition |-> typeCondition,
   directives |-> directives, selectionSet |-> selections]
FragmentSpread(name, directives) ==
  [kind |-> "FragmentSpread", name |-> name, directives |-> directives]

\* The fields of the types of the schema
FieldsOf == [A |-> {"x", "y"}, B |-> {"x"}, C |-> {"x"}, I |-> {"x"}, U |-> {}]

\* The fragment definitions of the operation
Fragments ==
  [F |-> [typeCondition |-> Defined("B"), selectionSet |-> <<FieldSelection("x")>>],
   G |-> [typeCondition |-> Defined("I"),
          selectionSet |-> << FieldSelection("x"),
                              InlineFragment(Defined("A"), Defined(<<>>),
                                             <<FieldSelection("y")>>) >>]]

\* The @key selections of each type in each service
KeysOfTypes ==
  [A |-> [S1 |-> << <<FieldSelection("x")>>, <<FieldSelection("y")>> >>,
          S2 |-> << <<FieldSelection("y")>> >>],
   B |-> [S1 |-> << <<FieldSelection("x")>> >>, S2 |-> <<>>]]

FieldEntry(scope, fieldNode, fieldDef) ==
  [scope |-> scope, fieldNode |-> fieldNode, fieldDef |-> fieldDef]

\* QueryPlanningContext.getFieldDef: undefined where it throws
GetFieldDef(parentType, fieldName) ==
  IF fieldName = "__typename" THEN Defined(<<"", "__typename">>)
  ELSE IF fieldName \in FieldsOf[parentType] THEN Defined(<<parentType, fieldName>>)
  ELSE Undefined

GetFragmentCondition(parentType, fragment) ==
  IF fragment.typeCondition = Undefined THEN parentType
  ELSE Value(fragment.typeCondition)

ScopeIfPossible(newScope) ==
  IF Len(ComputePossibleRuntimeTypes(newScope)) = 0 THEN Undefined
  ELSE Defined(newScope)

\* scopeForFragment, keeping a scope without possible runtime types
ScopeForFragmentAlways(currentScope, fragment, fragmentDirectives) ==
  Defined(Refine(currentScope,
                 GetFragmentCondition(Head(currentScope).parentType, fragment),
                 fragmentDirectives))

ScopeForFragment(currentScope, fragment, fragmentDirectives) ==
  ScopeIfPossible(Refine(currentScope,
                         GetFragmentCondition(Head(currentScope).parentType, fragment),
                         fragmentDirectives))

\* collectFields: ok is false once getFieldDef has thrown
RECURSIVE CollectFields(_, _, _)
CollectFragment(newScope, selections, fields) ==
  IF newScope = Undefined THEN fields
  ELSE CollectFields(Value(newScope), selections, fields)

PushField(scope, selection, fieldDef, fields) ==
  IF fieldDef = Undefined THEN [fields EXCEPT !.ok = FALSE]
  ELSE [fields EXCEPT
          !.fields = Append(@, FieldEntry(scope, selection.name, Value(fieldDef)))]

\* A field is put at the head of the list
PushFieldFirst(scope, selection, fieldDef, fields) ==
  IF fieldDef = Undefined THEN [fields EXCEPT !.ok = FALSE]
  ELSE [fields EXCEPT
          !.fields = <<FieldEntry(scope, selection.name, Value(fieldDef))>> \o @]

CollectSelectionFieldFirst(scope, selection, fields) ==
  CASE selection.kind = "Field" ->
         PushFieldFirst(scope, selection,
                        GetFieldDef(Head(scope).parentType, selection.name), fields)
    [] selection.kind = "InlineFragment" ->
         CollectFragment(ScopeForFragment(scope, selection, selection.directives),
                         selection.selectionSet, fields)
    [] selection.kind = "FragmentSpread" ->
         IF selection.name \notin DOMAIN Fragments THEN fields
         ELSE CollectFragment(
                ScopeForFragment(scope, Fragments[selection.name], selection.directives),
                Fragments[selection.name].selectionSet, fields)

CollectSelection(scope, selection, fields) ==
  CASE selection.kind = "Field" ->
         PushField(scope, selection,
                   GetFieldDef(Head(scope).parentType, selection.name), fields)
    [] selection.kind = "InlineFragment" ->
         CollectFragment(ScopeForFragment(scope, selection, selection.directives),
                         selection.selectionSet, fields)
    [] selection.kind = "FragmentSpread" ->
         IF selection.name \notin DOMAIN Fragments THEN fields
         ELSE CollectFragment(
                ScopeForFragment(scope, Fragments[selection.name], selection.directives),
                Fragments[selection.name].selectionSet, fields)

CollectFields(scope, selections, fields) ==
  IF selections = <<>> \/ ~fields.ok THEN fields
  ELSE CollectFields(scope, Tail(selections),
                     CollectSelection(scope, Head(selections), fields))

NoFields == [ok |-> TRUE, fields |-> <<>>]

\* getKeyFields
KeysOfType(possibleType, serviceName) ==
  IF possibleType \in DOMAIN KeysOfTypes THEN KeysOfTypes[possibleType][serviceName]
  ELSE <<>>

\* With fetchAll the last key alone is fetched
KeysFetchedLast(keys, fetchAll) ==
  IF Len(keys) = 0 THEN <<>>
  ELSE IF fetchAll THEN <<keys[Len(keys)]>> ELSE <<keys[1]>>

KeysFetched(keys, fetchAll) ==
  IF Len(keys) = 0 THEN <<>>
  ELSE IF fetchAll THEN keys ELSE <<keys[1]>>

RECURSIVE CollectKeys(_, _, _)
CollectKeys(scope, keys, keyFields) ==
  IF keys = <<>> THEN keyFields
  ELSE CollectKeys(scope, Tail(keys), CollectFields(scope, Head(keys), keyFields))

RECURSIVE KeyFieldsOfTypes(_, _, _, _, _)
KeyFieldsOfTypes(scope, serviceName, fetchAll, possibleTypes, keyFields) ==
  IF possibleTypes = <<>> THEN keyFields
  ELSE KeyFieldsOfTypes(
         scope, serviceName, fetchAll, Tail(possibleTypes),
         CollectKeys(Refine(scope, Head(possibleTypes), Undefined),
                     KeysFetched(KeysOfType(Head(possibleTypes), serviceName), fetchAll),
                     keyFields))

\* getKeyFields without the __typename field
GetKeyFieldsOfKeysOnly(scope, serviceName, fetchAll) ==
  KeyFieldsOfTypes(scope, serviceName, fetchAll, ComputePossibleRuntimeTypes(scope),
                   NoFields)

GetKeyFields(scope, serviceName, fetchAll) ==
  KeyFieldsOfTypes(scope, serviceName, fetchAll, ComputePossibleRuntimeTypes(scope),
                   [ok |-> TRUE,
                    fields |-> <<FieldEntry(scope, "__typename", <<"", "__typename">>)>>])

\* The selection sets collected: up to MaxSelections selections, each a
\* field, an inline fragment or a fragment spread (H is not defined)
SubSelections ==
  { <<FieldSelection("x")>>,
    <<FieldSelection("y"), FieldSelection("x")>>,
    <<InlineFragment(Defined("B"), Defined(<<>>), <<FieldSelection("x")>>)>> }

Conditions == {Undefined, Defined("A"), Defined("C"), Defined("I")}

Selections ==
  {FieldSelection(n) : n \in {"x", "y"}}
    \cup {InlineFragment(c, Defined(<<>>), s) : c \in Conditions, s \in SubSelections}
    \cup {InlineFragment(c, Defined(<<DirX>>), <<FieldSelection("x")>>) :
            c \in {Undefined, Defined("C")}}
    \cup {FragmentSpread(n, Defined(<<>>)) : n \in {"F", "G", "H"}}

SelectionSets == UNION {[1..n -> Selections] : n \in 0..MaxSelections}

CollectScopes ==
  {Create(t) : t \in CompositeTypes}
    \cup {Refine(Create("I"), "U", Undefined), Refine(Create("A"), "B", Defined(<<DirX>>))}

InitCollect ==
  /\ heap = <<>>
  /\ last = Done("scope", TRUE, Undef, "", NoType, {}, Undef)
  /\ nops = 0
  /\ applied = {}
  /\ doc \in SelectionSets
  /\ thisScope \in CollectScopes
  /\ thatScope = <<>>
  /\ subgraph = <<>>
  /\ subgraphs = <<>>
  /\ result = NoFields

Collected(op, serviceName, fetchAll, fields) ==
  /\ nops' = 1
  /\ result' = fields
  /\ last' = Done(op, fields.ok, Undef, serviceName, NoType, {}, fetchAll)
  /\ UNCHANGED <<heap, applied, doc, thisScope, thatScope, subgraph, subgraphs>>

\* result = context.collectFields(thisScope, doc)
CollectFieldsOp ==
  /\ nops = 0
  /\ Collected("collectFields", "", FALSE, CollectFields(thisScope, doc, NoFields))

\* result = context.getKeyFields(thisScope, serviceName, fetchAll)
GetKeyFieldsOp ==
  /\ nops = 0
  /\ \E serviceName \in {"S1", "S2"}, fetchAll \in BOOLEAN :
       Collected("getKeyFields", serviceName, fetchAll,
                 GetKeyFields(thisScope, serviceName, fetchAll))

NextCollect == CollectFieldsOp \/ GetKeyFieldsOp

SpecCollect == InitCollect /\ [][NextCollect]_vars

\* The possible runtime types of a type condition
ConditionTypes(typeCondition) ==
  IF typeCondition = Undefined THEN ObjectTypeNames
  ELSE SeqToSet(GetPossibleTypes(Value(typeCondition)))

\* The names of the fields selected for some of the runtime types, in source
\* order, those of a fragment at its position
RECURSIVE FieldsInOrder(_, _)
FragmentFields(types, selections) ==
  IF types = {} THEN <<>> ELSE FieldsInOrder(types, selections)

SelectionFields(types, selection) ==
  CASE selection.kind = "Field" -> <<selection.name>>
    [] selection.kind = "InlineFragment" ->
         FragmentFields(types \cap ConditionTypes(selection.typeCondition),
                        selection.selectionSet)
    [] selection.kind = "FragmentSpread" ->
         IF selection.name \notin DOMAIN Fragments THEN <<>>
         ELSE FragmentFields(
                types \cap ConditionTypes(Fragments[selection.name].typeCondition),
                Fragments[selection.name].selectionSet)

FieldsInOrder(types, selections) ==
  IF selections = <<>> THEN <<>>
  ELSE SelectionFields(types, Head(selections)) \o FieldsInOrder(types, Tail(selections))

FieldNodes(fields) == [i \in 1..Len(fields) |-> fields[i].fieldNode]

\* C25: collectFields, when it returns, lists the field selections of the
\* selection set in source order, the fields of a fragment that applies to
\* the scope recursively at the position of the fragment; an empty selection
\* set gives an empty list.
C25_CollectFieldsInOrder ==
  (last.op = "collectFields" /\ last.ok) =>
    /\ FieldNodes(result.fields) = FieldsInOrder(PossibleRuntimeTypes(thisScope), doc)
    /\ doc = <<>> => result.fields = <<>>

\* C25's case: on scope I, a field, the spread of G (on I: x, then y under
\* a fragment on A) and a field again; the fields of G stand between the two.
C25_Witness ==
  /\ last.op = "collectFields"
  /\ last.ok
  /\ thisScope = Create("I")
  /\ doc = <<FieldSelection("x"), FragmentSpread("G", Defined(<<>>))>>
  /\ FieldNodes(result.fields) = <<"x", "x", "y">>
  /\ result.fields[3].scope = NewScope("A", Undefined, <<>>)

\* The fragment of a selection, the definition of a spread
FragmentOf(selection) ==
  IF selection.kind = "FragmentSpread" THEN Fragments[selection.name] ELSE selection

\* The positions of the fragments whose type condition has no possible
\* runtime type in common with the scope
DisjointFragments(scope, selections) ==
  {i \in 1..Len(selections) :
     /\ selections[i].kind # "Field"
     /\ selections[i].kind = "FragmentSpread" => selections[i].name \in DOMAIN Fragments
     /\ FragmentOf(selections[i]).typeCondition # Undefined
     /\ ConditionTypes(FragmentOf(selections[i]).typeCondition)
          \cap PossibleRuntimeTypes(scope) = {}}

Without(selections, i) ==
  SubSeq(selections, 1, i - 1) \o SubSeq(selections, i + 1, Len(selections))

\* C26: an inline fragment or fragment spread whose type condition has no
\* possible runtime type in common with the scope contributes no field, and
\* the selections that follow it are collected: the result is that of the
\* selection set without the fragment.
C26_DisjointFragmentSkipped ==
  last.op = "collectFields" =>
    \A i \in DisjointFragments(thisScope, doc) :
      result = CollectFields(thisScope, Without(doc, i), NoFields)

\* C26's case: on scope A, a fragment on C then the field x; the field of
\* the fragment is not collected, the field after it is.
C26_Witness ==
  /\ last.op = "collectFields"
  /\ thisScope = Create("A")
  /\ doc = << InlineFragment(Defined("C"), Defined(<<>>), <<FieldSelection("x")>>),
              FieldSelection("x") >>
  /\ result = [ok |-> TRUE,
               fields |-> <<FieldEntry(Create("A"), "x", <<"A", "x">>)>>]

\* The coordinates of a field set: the parent type of the scope and the name
\* of the field of each entry
EntryCoordinates(fields) ==
  {<<Head(fields[i].scope).parentType, fields[i].fieldNode>> : i \in 1..Len(fields)}

\* C27: the key fields of a scope for a service with fetchAll are, by
\* coordinate, a superset of those without.
C27_FetchAllSuperset ==
  (last.op = "getKeyFields" /\ last.res) =>
    EntryCoordinates(GetKeyFields(thisScope, last.name, FALSE).fields)
      \subseteq EntryCoordinates(result.fields)

\* C27's case: on scope I for S1, whose type A has the keys x and y and B the
\* key x; with fetchAll the key fields are __typename, A.x, A.y and B.x, and
\* without it A.y is not among them.
C27_Witness ==
  /\ last.op = "getKeyFields"
  /\ last.res
  /\ last.name = "S1"
  /\ thisScope = Create("I")
  /\ EntryCoordinates(result.fields)
       = {<<"I", "__typename">>, <<"A", "x">>, <<"A", "y">>, <<"B", "x">>}
  /\ <<"A", "y">> \notin EntryCoordinates(GetKeyFields(thisScope, "S1", FALSE).fields)

\* ------------------------------------------------- Scope chain, continued
HasDirectives(link) == link.directives # Undefined
StrictSuperType(superType, type) ==
  superType # type /\ IsTypeSubTypeOf(type, superType)

\* C28: whenever refine pushes a new link, with or without directives, no
\* link of the chain enclosing the new link is without directives and has a
\* parent type that is a super-type of the type of the new link, and the
\* links with directives of the scope refined are all kept, in their order.
C28_PushedLinkPrunes ==
  [][(last'.op = "refine" /\ last'.name = "this" /\ thisScope' # thisScope) =>
       /\ \A i \in 2..Len(thisScope') :
            ~(/\ ~HasDirectives(thisScope'[i])
              /\ StrictSuperType(thisScope'[i].parentType, Head(thisScope').parentType))
       /\ SelectSeq(Tail(thisScope'), HasDirectives) = SelectSeq(thisScope, HasDirectives)
    ]_vars

\* C29: refine without directives returns the receiver exactly when some link
\* of the chain has a parent type that is a sub-type of, or equal to, the
\* refining type, and refine with an empty directive list returns what refine
\* without directives returns.
C29_RefineReturnsReceiver ==
  \A type \in CompositeTypes :
    /\ Refine(thisScope, type, Undefined) = thisScope
         <=> \E i \in 1..Len(thisScope) : IsTypeSubTypeOf(thisScope[i].parentType, type)
    /\ Refine(thisScope, type, Defined(<<>>)) = Refine(thisScope, type, Undefined)

\* C29's case: the scope on U with directives enclosed by A, got by refining
\* the scope on A; refining it by I returns it, since A implements I, and
\* refining it by C does not.
C29_Witness ==
  /\ last.op = "refine"
  /\ last.name = "this"
  /\ thisScope = NewScope("U", Defined(<<DirX, DirY>>), NewScope("A", Undefined, <<>>))
  /\ Refine(thisScope, "I", Defined(<<>>)) = thisScope
  /\ Refine(thisScope, "C", Undefined) = NewScope("C", Undefined, thisScope)

\* The directives of the innermost links of the two scopes, when both have some
BothHaveDirectives ==
  HasDirectives(Head(thisScope)) /\ HasDirectives(Head(thatScope))

ElementWiseEqual(d1, d2) ==
  Len(d1) = Len(d2) /\ \A i \in 1..Len(d1) : d1[i] = d2[i]

Occurrences(d, x) == Cardinality({i \in 1..Len(d) : d[i] = x})

SameOccurrences(d1, d2) ==
  \A x \in SeqToSet(d1) \cup SeqToSet(d2) : Occurrences(d1, x) = Occurrences(d2, x)

\* C30 as stated: the directive lists of two links are held equal if and
\* only if they have the same length and the i-th directive of one equals the
\* i-th directive of the other, by name and arguments.
C30_DirectivesEqualElementWise ==
  BothHaveDirectives =>
    (DirectivesEquals(Head(thisScope).directives, Head(thatScope).directives)
       <=> ElementWiseEqual(Value(Head(thisScope).directives),
                            Value(Head(thatScope).directives)))

\* C30, amended: the directive lists of two links are held equal if and only
\* if they have the same length and hold the same directives, by name and
\* arguments in their order, the same number of times each, in any order.
C30_DirectivesEqualInAnyOrder ==
  BothHaveDirectives =>
    (DirectivesEquals(Head(thisScope).directives, Head(thatScope).directives)
       <=> /\ Len(Value(Head(thisScope).directives))
                = Len(Value(Head(thatScope).directives))
           /\ SameOccurrences(Value(Head(thisScope).directives),
                              Value(Head(thatScope).directives)))

\* C30's case: two scopes on I refined by I with @x and @y(a: 1), in one order
\* and in the other; equals holds them equal.
C30_Witness ==
  /\ last.op = "refine"
  /\ thisScope = NewScope("I", Defined(<<DirX, DirY>>), NewScope("I", Undefined, <<>>))
  /\ thatScope = NewScope("I", Defined(<<DirY, DirX>>), NewScope("I", Undefined, <<>>))
  /\ Equals(thisScope, thatScope)

\* The names of the fields of the keys of a type for a service: of all of
\* them, or of the first
KeyNames(keys) ==
  Concat([k \in 1..Len(keys) |-> [n \in 1..Len(keys[k]) |-> keys[k][n].name]])

ExpectedKeyNames(possibleType, serviceName, fetchAll) ==
  IF possibleType \notin DOMAIN KeysOfTypes THEN <<>>
  ELSE IF KeysOfTypes[possibleType][serviceName] = <<>> THEN <<>>
  ELSE IF fetchAll THEN KeyNames(KeysOfTypes[possibleType][serviceName])
  ELSE KeyNames(<<KeysOfTypes[possibleType][serviceName][1]>>)

ExpectedKeyFields(possibleTypes, serviceName, fetchAll) ==
  Concat([t \in 1..Len(possibleTypes) |->
            ExpectedKeyNames(possibleTypes[t], serviceName, fetchAll)])

RECURSIVE DeclaredFields(_, _)
DeclaredSelection(type, selection) ==
  CASE selection.kind = "Field" -> selection.name \in FieldsOf[type]
    [] selection.kind = "InlineFragment" ->
         DeclaredFields(GetFragmentCondition(type, selection), selection.selectionSet)
    [] selection.kind = "FragmentSpread" ->
         selection.name \in DOMAIN Fragments =>
           DeclaredFields(GetFragmentCondition(type, Fragments[selection.name]),
                          Fragments[selection.name].selectionSet)

DeclaredFields(type, selections) ==
  \A i \in 1..Len(selections) : DeclaredSelection(type, selections[i])

\* C34: refining a scope reached by create and refine by a type, without
\* directives, gives a scope whose parent type is that type or a sub-type of
\* it, and so collectFields finds every field declared on the type condition
\* of its fragment: it does not throw on a selection set whose fields are all
\* declared where they are selected.
C34_RefinedParentIsSubType ==
  /\ \A type \in CompositeTypes :
       IsTypeSubTypeOf(Head(Refine(thisScope, type, Undefined)).parentType, type)
  /\ (last.op = "collectFields" /\ DeclaredFields(Head(thisScope).parentType, doc))
       => last.ok

\* C35: in every branch of refine the possible runtime types of the refined
\* scope are those of the scope that are possible types of the refining type.
C35_RefineIntersects ==
  \A type \in CompositeTypes, directives \in RefineDirectives :
    PossibleRuntimeTypes(Refine(thisScope, type, directives))
      = PossibleRuntimeTypes(thisScope) \cap SeqToSet(GetPossibleTypes(type))

\* C35's case: the scope on I refined by U, a chain of two links where B
\* alone is possible; refining it by I returns it, refining it by B prunes U
\* and I, refining it by C with directives pushes a link that leaves no
\* possible runtime type.
C35_Witness ==
  /\ last.op = "refine"
  /\ last.name = "this"
  /\ thisScope = NewScope("U", Undefined, NewScope("I", Undefined, <<>>))
  /\ PossibleRuntimeTypes(thisScope) = {"B"}
  /\ Refine(thisScope, "I", Undefined) = thisScope
  /\ Refine(thisScope, "B", Undefined) = NewScope("B", Undefined, <<>>)
  /\ PossibleRuntimeTypes(Refine(thisScope, "C", Defined(<<DirX, DirX>>))) = {}

\* ---------------------------------------------------------- Scope objects
\* The Scope objects themselves: heap is the sequence of the objects
\* constructed so far, each with its parent type, its directives, the index
\* of its enclosing scope (0 for none) and its cached runtime types;
\* thisScope is the index of the scope returned last.
ScopeObject(parentType, directives, enclosing) ==
  [parentType |-> parentType, directives |-> directives, enclosing |-> enclosing,
   cachedRuntimeTypes |-> Undefined]

\* The chain of links of a scope object, innermost first
RECURSIVE ChainOf(_, _)
ChainOf(h, s) ==
  IF s = 0 THEN <<>>
  ELSE <<[parentType |-> h[s].parentType, directives |-> h[s].directives]>>
       \o ChainOf(h, h[s].enclosing)

\* new Scope(...)
Allocated(h, object) == [heap |-> Append(h, object), ptr |-> Len(h) + 1]

\* pruneRefinedTypes setting the enclosing scope of a kept link in place
RECURSIVE PruneRefinedTypesInPlace(_, _, _)
KeptInPlace(toPrune, pruned) ==
  [heap |-> [pruned.heap EXCEPT ![toPrune].enclosing = pruned.ptr], ptr |-> toPrune]

PruneRefinedTypesInPlace(h, toPrune, refiningType) ==
  IF toPrune = 0 THEN [heap |-> h, ptr |-> 0]
  ELSE IF /\ h[toPrune].directives = Undefined
          /\ IsTypeSubTypeOf(refiningType, h[toPrune].parentType)
       THEN PruneRefinedTypesInPlace(h, h[toPrune].enclosing, refiningType)
       ELSE KeptInPlace(toPrune,
                        PruneRefinedTypesInPlace(h, h[toPrune].enclosing, refiningType))

\* Scope.pruneRefinedTypes on objects
RECURSIVE PruneRefinedTypesObject(_, _, _)
KeptCopy(h, toPrune, pruned) ==
  Allocated(pruned.heap,
            ScopeObject(h[toPrune].parentType, h[toPrune].directives, pruned.ptr))

PruneRefinedTypesObject(h, toPrune, refiningType) ==
  IF toPrune = 0 THEN [heap |-> h, ptr |-> 0]
  ELSE IF /\ h[toPrune].directives = Undefined
          /\ IsTypeSubTypeOf(refiningType, h[toPrune].parentType)
       THEN PruneRefinedTypesObject(h, h[toPrune].enclosing, refiningType)
       ELSE KeptCopy(h, toPrune,
                     PruneRefinedTypesObject(h, h[toPrune].enclosing, refiningType))

\* Scope.refine on objects
RefinePruned(type, pruned) ==
  Allocated(pruned.heap, ScopeObject(type, Undefined, pruned.ptr))

RefineObjectWith(h, s, type, directives) ==
  IF directives # Undefined THEN Allocated(h, ScopeObject(type, directives, s))
  ELSE IF ~IsStrictlyRefinedBy(ChainOf(h, s), type) THEN [heap |-> h, ptr |-> s]
  ELSE RefinePruned(type, PruneRefinedTypesObject(h, s, type))

RefineObject(h, s, type, directives) ==
  RefineObjectWith(h, s, type,
                   IF directives # Undefined /\ Len(Value(directives)) = 0
                   THEN Undefined ELSE directives)

\* Scope.possibleRuntimeTypes on objects: computed once, then cached
CachedRuntimeTypes(h, s) ==
  IF h[s].cachedRuntimeTypes = Undefined
  THEN [h EXCEPT ![s].cachedRuntimeTypes =
          Defined(ComputePossibleRuntimeTypes(ChainOf(h, s)))]
  ELSE h

InitObjects ==
  /\ heap \in {<<ScopeObject(t, Undefined, 0)>> : t \in CompositeTypes}
  /\ last = Done("create", TRUE, Undef, "", NoType, {}, 1)
  /\ nops = 0
  /\ applied = {}
  /\ doc = <<>>
  /\ thisScope = 1
  /\ thatScope = <<>>
  /\ subgraph = <<>>
  /\ subgraphs = <<>>
  /\ result = <<>>

RefinedObject(s, refined) ==
  /\ heap' = refined.heap
  /\ thisScope' = refined.ptr
  /\ last' = Done("refine", TRUE, s, "", NoType, {}, refined.ptr)

\* thisScope = s.refine(type, directives), s any scope constructed so far
RefineObjectOp ==
  /\ nops < MaxOps
  /\ nops' = nops + 1
  /\ \E s \in 1..Len(heap), type \in CompositeTypes,
        directives \in {Undefined, Defined(<<>>), Defined(<<DirX>>)} :
       RefinedObject(s, RefineObject(heap, s, type, directives))
  /\ UNCHANGED <<applied, doc, thatScope, subgraph, subgraphs, result>>

\* s.possibleRuntimeTypes()
PossibleRuntimeTypesOp ==
  /\ nops < MaxOps
  /\ nops' = nops + 1
  /\ \E s \in 1..Len(heap) :
       /\ heap' = CachedRuntimeTypes(heap, s)
       /\ last' = Done("possibleRuntimeTypes", TRUE, s, "", NoType, {}, s)
  /\ UNCHANGED <<applied, doc, thisScope, thatScope, subgraph, subgraphs, result>>

NextObjects == RefineObjectOp \/ PossibleRuntimeTypesOp

SpecObjects == InitObjects /\ [][NextObjects]_vars

\* C37: refine changes no scope object constructed before it: the parent
\* type, the directives, the enclosing scope and the cached runtime types of
\* the receiver and of every link of its chain stay as they were, and so does
\* the chain of every scope obtained earlier.
C37_RefineLeavesScopes ==
  [][last'.op = "refine" =>
       /\ Len(heap') >= Len(heap)
       /\ \A s \in 1..Len(heap) :
            /\ heap'[s] = heap[s]
            /\ ChainOf(heap', s) = ChainOf(heap, s)]_vars

\* C37's case: the scope on I, refined by U with @x, then that scope refined
\* by A without directives: the link on I is pruned by building a copy of the
\* link on U, and the scope refined still encloses the scope on I.
C37_Witness ==
  /\ last.op = "refine"
  /\ last.recv = 2
  /\ Len(heap) = 4
  /\ heap[1] = ScopeObject("I", Undefined, 0)
  /\ heap[2] = ScopeObject("U", Defined(<<DirX>>), 1)
  /\ heap[3] = ScopeObject("U", Defined(<<DirX>>), 0)
  /\ heap[4] = ScopeObject("A", Undefined, 3)
  /\ thisScope = 4

\* ------------------------------------------- removal of members (C31, C32)
\* A step in which remove() is called on a field, an input field or an
\* argument definition.
RemovesMember ==
  /\ last'.op \in {"removeField", "removeArgument"}
  /\ nops' = nops + 1

\* The arguments of an element: the children of a field definition.
ArgumentsOf(h, e) ==
  IF h[e].kind = "FieldDefinition" THEN SeqToSet(h[e].kids) ELSE {}

\* Nothing links the element and a schema any more: it has no parent and
\* no type, its arguments have no parent, its applied-directive list is
\* empty and the directives that were applied to it have no parent.
Detached(before, after, e) ==
  /\ after[e].parent = Undef
  /\ after[e].type = NoType
  /\ \A a \in ArgumentsOf(before, e) : after[a].parent = Undef
  /\ after[e].dirs = <<>>
  /\ \A d \in SeqToSet(before[e].dirs) : after[d].parent = Undef

\* C31: remove() on an attached field, input field or argument definition
\* detaches it completely: it is no longer in its former parent's map, it
\* has no parent and no type, each of its arguments is detached, and each
\* directive applied to it is removed.
C31_RemoveDetachesCompletely ==
  [][(RemovesMember /\ heap[last'.recv].parent # Undef) =>
       /\ last'.recv \notin SeqToSet(heap'[heap[last'.recv].parent].kids)
       /\ Detached(heap, heap', last'.recv)]_vars

\* The removals of the mutable view.
RemoveOperations == {"removeType", "removeField", "removeArgument", "removeDirective"}

\* A step in which remove() is called on an element that has no parent.
RemovesDetached ==
  /\ last'.op \in RemoveOperations
  /\ nops' = nops + 1
  /\ heap[last'.recv].parent = Undef

\* C32: remove() on an element that is already detached returns the empty
\* result (no referencer, or false for a directive application) and
\* changes nothing.
C32_RemoveIdempotent ==
  [][RemovesDetached =>
       /\ heap' = heap
       /\ last'.ret = IF last'.op = "removeDirective" THEN Defined(FALSE) ELSE {}]_vars

\* A second remove() has been called on a detached directive application
\* and on nothing else since.
C32_Witness ==
  /\ last.op = "removeDirective"
  /\ heap[last.recv].parent = Undef
  /\ last.ret = Defined(FALSE)

\* ------------------------------------------------ list types of a type (C36)
\* The fields, input fields and arguments attached to schema s whose type
\* is a list type, of any nesting depth, with base type t.
ListsOf(h, s, t) ==
  {e \in Typed(h) : SchemaOf(h, e) = s /\ h[e].type.base = t /\ h[e].type.depth > 0}

\* C36: after T.remove() returns, no field, input field or argument that
\* is still attached to the schema has a list type, of any nesting depth,
\* whose base type is the removed type T.
C36_NoListOfRemovedType ==
  [][RemovesAttachedType =>
       ListsOf(heap', SchemaOf(heap, last'.recv), last'.recv) = {}]_vars

\* ------------------------------------------ parents and containers (C38)
\* Every directive application that has a parent is in the parent's list of
\* applied directives.
DirectivesListed(h) ==
  \A d \in Ids(h) :
    (h[d].kind = "Directive" /\ h[d].parent # Undef) =>
      d \in SeqToSet(h[h[d].parent].dirs)

\* Every field in the field map of an object type has that type as parent.
FieldsOwned(h) ==
  \A t \in Ids(h) :
    h[t].kind = "ObjectType" => \A f \in SeqToSet(h[t].kids) : h[f].parent = t

\* Every type in the types of a schema has that schema as parent.
TypesOwned(h) ==
  \A s \in Schemas(h) : \A t \in SeqToSet(h[s].kids) : h[t].parent = s

\* C38: in every state reached by parse, copy, add, applyDirective and
\* remove operations, a directive application whose parent is P is in P's
\* applied-directive list, a field in an object type's field map has that
\* type as parent, and a type in a schema's types has that schema as
\* parent.
C38_ParentContainerConsistency ==
  /\ DirectivesListed(heap)
  /\ FieldsOwned(heap)
  /\ TypesOwned(heap)

\* A directive has been applied and a type with fields and several applied
\* directives has been removed, one of its directives staying behind.
C38_Witness ==
  /\ "applyDirective" \in applied
  /\ last.op = "removeType"
  /\ heap[last.recv].kind = "ObjectType"
  /\ heap[last.recv].parent = Undef
  /\ heap[last.recv].dirs # <<>>

\* -------------------------------------------------- schema definition (C39)
\* Only parse and copy have run since the initial schema was built.
OnlyParsedAndCopied == applied \subseteq {"parse", "copy"}

\* C39: every schema returned by MutableSchema.empty, by parse (with or
\* without a schema definition block) or by toMutable / toImmutable has a
\* schema definition, so that reading schemaDefinition never raises the
\* 'Badly constructed schema' assertion and a parsed schema can always be
\* copied.
C39_SchemaDefinitionPresent ==
  /\ \A s \in Schemas(heap) : heap[s].sdef # Undef
  /\ (last.op = "copy" /\ OnlyParsedAndCopied) => last.ok
====
